---- MODULE Spec2Model ----
(***************************************************************************)
(* Namespace subsystem of rc (src/dist.c): the bind table, the path        *)
(* canonicalizer, the namespace resolver, the process launcher, and the    *)
(* builtins bind, addns, mount, unmount, ns, import, cpu, srv and rfork.   *)
(*                                                                         *)
(* A C string is a sequence of one-character strings, so that hashing,     *)
(* trailing-slash stripping and flag parsing work on characters as the     *)
(* code does.  A null pointer is NULL.                                     *)
(***************************************************************************)
EXTENDS Integers, Sequences, FiniteSets, TLC

VARIABLES
    bindtab,      \* static Bind *bindtab[BIND_MAX]: bucket -> chain of entries,
                  \* the buckets whose head is the null pointer left out
    nbinds,       \* static int nbinds
    dirs,         \* the directories that exist in the file system
    status,       \* the shell's exit status sink: set(TRUE) / set(FALSE)
    ns_bind_last, \* the shell variable ns_bind_last (NULL while unset)
    launched,     \* the tools run_cmd started during the last builtin, in order
    last,         \* the last operation, its arguments and what it returned
    adds,         \* per mountpoint: the adds made since it last had no entry
    job,          \* the builtin the shell is executing (NoCmd at the prompt)
    procs,        \* the child processes forked so far; a pid is an index
    srvdir,       \* SRV_DIR: whether it exists, and its entries
    shvars,       \* the shell variables: name -> list of words
    out,          \* what the last builtin printed on fd 1 and fd 2
    attrs         \* the attributes of the shell process that rfork mutates

\* the state of the launcher, the service registry and the process attributes
world == <<job, procs, srvdir, shvars, out, attrs>>

vars == <<bindtab, nbinds, dirs, status, ns_bind_last, launched, last, adds,
          job, procs, srvdir, shvars, out, attrs>>

(***************************************************************************)
(* Program constants (src/dist.h).                                         *)
(***************************************************************************)
BIND_REPLACE == 0
BIND_BEFORE == 1
BIND_AFTER == 2
BIND_CREATE == 4
BIND_MAX == 256

NULL == <<"NULL">>

(***************************************************************************)
(* Bounds of the model.                                                    *)
(***************************************************************************)
MaxEntries == 4   \* adds are offered while nbinds is below this

(***************************************************************************)
(* Characters and strings.                                                 *)
(***************************************************************************)
Lower == <<"a","b","c","d","e","f","g","h","i","j","k","l","m",
           "n","o","p","q","r","s","t","u","v","w","x","y","z">>

\* (unsigned char)c for the characters the model's inputs use
Ord(c) ==
    IF \E i \in 1..26 : Lower[i] = c
    THEN 96 + (CHOOSE i \in 1..26 : Lower[i] = c)
    ELSE CASE c = "/" -> 47
           [] c = "." -> 46
           [] c = "-" -> 45
           [] c = ":" -> 58
           [] c = " " -> 32

\* a & bit, for a single-bit mask
HasBit(a, bit) == (a \div bit) % 2 = 1

\* One step of h = h * 31 + c on a 32-bit unsigned int, kept as two 16-bit
\* halves <<hi, lo>> so that the wrap-around at 2^32 is the C one.
HashStep(h, c) ==
    LET lo == h[2] * 31 + Ord(c)
        hi == h[1] * 31 + (lo \div 65536)
    IN  <<hi % 65536, lo % 65536>>

RECURSIVE HashFrom(_, _)
HashFrom(s, h) ==
    IF s = <<>> THEN h ELSE HashFrom(Tail(s), HashStep(h, Head(s)))

pathhash(s) ==
    LET h == HashFrom(s, <<0, 0>>)
    IN  (((h[1] % BIND_MAX) * (65536 % BIND_MAX)) + h[2]) % BIND_MAX

(***************************************************************************)
(* The file system the code sees through stat, realpath and mkdir.         *)
(***************************************************************************)
Root == <<"/">>
Cwd == <<"/", "n">>

\* directories present when the shell starts
InitDirs ==
    { Root, <<"/","a">>, <<"/","b">>, <<"/","c">>,
      <<"/","m">>, <<"/","e","t">>, <<"/","n">> }

\* regular files (stat succeeds, S_ISDIR fails)
Files == { <<"/","f">> }

\* symbolic links, each to its target
LinkNames == { <<"/","l">> }
LinkTarget(p) == <<"/","m">>

RECURSIVE SplitFrom(_, _, _)
SplitFrom(s, cur, acc) ==
    IF s = <<>>
    THEN IF cur = <<>> THEN acc ELSE Append(acc, cur)
    ELSE IF Head(s) = "/"
         THEN SplitFrom(Tail(s), <<>>, IF cur = <<>> THEN acc ELSE Append(acc, cur))
         ELSE SplitFrom(Tail(s), Append(cur, Head(s)), acc)

\* the components of a path between its slashes
Components(p) == SplitFrom(p, <<>>, <<>>)

RECURSIVE JoinFrom(_, _)
JoinFrom(comps, acc) ==
    IF comps = <<>> THEN acc
    ELSE JoinFrom(Tail(comps), acc \o <<"/">> \o Head(comps))

Join(comps) == IF comps = <<>> THEN Root ELSE JoinFrom(comps, <<>>)

Front(s) == SubSeq(s, 1, Len(s) - 1)

Exists(fs, p) == p \in fs \/ p \in Files

\* Walk the components from directory `at` (a component list), following
\* ".", ".." and symbolic links; NULL as soon as a component is missing.
RECURSIVE Walk(_, _, _)
Walk(fs, comps, at) ==
    IF comps = <<>> THEN Join(at)
    ELSE LET c == Head(comps) IN
         IF Join(at) \notin fs THEN NULL
         ELSE IF c = <<".">> THEN Walk(fs, Tail(comps), at)
         ELSE IF c = <<".", ".">>
              THEN Walk(fs, Tail(comps), IF at = <<>> THEN at ELSE Front(at))
         ELSE LET q == Join(Append(at, c))
                  r == IF q \in LinkNames THEN LinkTarget(q) ELSE q
              IN  IF Exists(fs, r)
                  THEN Walk(fs, Tail(comps), Components(r))
                  ELSE NULL

\* realpath(3): the canonical absolute path, or NULL when the path does not
\* resolve to an existing file
realpath(fs, path) ==
    IF path = <<>> THEN NULL
    ELSE IF Head(path) = "/"
         THEN Walk(fs, Components(path), <<>>)
         ELSE Walk(fs, Components(path), Components(Cwd))

\* stat(path, &st) == 0
stat_ok(fs, path) == realpath(fs, path) # NULL

isdir(fs, path) == realpath(fs, path) \in fs

\* mkdir(path, 0755): ret 0 and the new directory, or ret -1 with errno
mkdir(fs, path) ==
    LET comps  == Components(path)
        start  == IF path # <<>> /\ Head(path) = "/" THEN <<>> ELSE Components(Cwd)
        parent == IF comps = <<>> THEN NULL ELSE Walk(fs, Front(comps), start)
        name   == comps[Len(comps)]
    IN  IF path = <<>> THEN [ret |-> -1, errno |-> "ENOENT", fs |-> fs]
        ELSE IF comps = <<>> \/ realpath(fs, path) # NULL
             THEN [ret |-> -1, errno |-> "EEXIST", fs |-> fs]
        ELSE IF parent = NULL \/ parent \notin fs
             THEN [ret |-> -1, errno |-> "ENOENT", fs |-> fs]
        ELSE IF name = <<".">> \/ name = <<".", ".">>
             THEN [ret |-> -1, errno |-> "EEXIST", fs |-> fs]
        ELSE [ret |-> 0, errno |-> "",
              fs |-> fs \cup {Join(Append(Components(parent), name))}]

RECURSIVE StripSlashes(_)
StripSlashes(s) ==
    IF Len(s) > 1 /\ s[Len(s)] = "/" THEN StripSlashes(Front(s)) ELSE s

cleanpath(fs, path) ==
    IF path = NULL \/ path = <<>> THEN <<".">>
    ELSE IF realpath(fs, path) # NULL THEN realpath(fs, path)
    ELSE StripSlashes(path)

ensuredir(fs, path, mode) ==
    IF isdir(fs, path) THEN [ret |-> 0, fs |-> fs]
    ELSE IF HasBit(mode, BIND_CREATE)
         THEN LET m == mkdir(fs, path) IN
              IF m.ret = 0 THEN [ret |-> 0, fs |-> m.fs]
              ELSE IF m.errno = "EEXIST" THEN [ret |-> 0, fs |-> fs]
              ELSE [ret |-> -1, fs |-> fs]
         ELSE [ret |-> -1, fs |-> fs]

(***************************************************************************)
(* The bind table.  A chain is the sequence of the entries of one bucket   *)
(* in link order (bindtab[h], then ->n, ...).                              *)
(***************************************************************************)
Bind(from, to, mode) == [from |-> from, to |-> to, mode |-> mode]

\* bindtab after memzero: every bucket head is the null pointer
EmptyTab == <<>>

\* the chain bindtab[h] heads
Bucket(tab, h) == IF h \in DOMAIN tab THEN tab[h] ELSE <<>>

\* bindtab[h] = the head of `chain`
SetBucket(tab, h, chain) ==
    [x \in (DOMAIN tab \ {h}) \cup (IF chain = <<>> THEN {} ELSE {h}) |->
        IF x = h THEN chain ELSE tab[x]]

\* the position in its bucket's chain of the first entry for `to`; 0 is the
\* null pointer
find_bind(tab, to) ==
    LET chain == Bucket(tab, pathhash(to))
        hits  == {i \in 1..Len(chain) : chain[i].to = to}
    IN  IF hits = {} THEN 0 ELSE CHOOSE i \in hits : \A j \in hits : i <= j

\* add_bind with the After case linking the new entry right behind `existing`
add_bind_behind_existing(tab, n, from, to, mode) ==
    LET h        == pathhash(to)
        chain    == Bucket(tab, h)
        b        == Bind(from, to, mode % 4)
        existing == find_bind(tab, to)
        keep(e)  == e.to # to
        chain2   == IF existing # 0
                    THEN IF HasBit(mode, BIND_BEFORE) THEN <<b>> \o chain
                         ELSE IF HasBit(mode, BIND_AFTER)
                              THEN SubSeq(chain, 1, existing) \o <<b>>
                                   \o SubSeq(chain, existing + 1, Len(chain))
                         ELSE <<b>> \o SelectSeq(chain, keep)
                    ELSE <<b>> \o chain
    IN  [tab |-> SetBucket(tab, h, chain2), n |-> n + 1]

\* add_bind with the Replace case unlinking only the first old entry
add_bind_replace_first(tab, n, from, to, mode) ==
    LET h        == pathhash(to)
        chain    == Bucket(tab, h)
        b        == Bind(from, to, mode % 4)
        existing == find_bind(tab, to)
        chain2   == IF existing # 0
                    THEN IF HasBit(mode, BIND_BEFORE) THEN <<b>> \o chain
                         ELSE IF HasBit(mode, BIND_AFTER) THEN Append(chain, b)
                         ELSE <<b>> \o SubSeq(chain, 1, existing - 1)
                                  \o SubSeq(chain, existing + 1, Len(chain))
                    ELSE <<b>> \o chain
    IN  [tab |-> SetBucket(tab, h, chain2), n |-> n + 1]

add_bind(tab, n, from, to, mode) ==
    LET h        == pathhash(to)
        chain    == Bucket(tab, h)
        b        == Bind(from, to, mode % 4)
        existing == find_bind(tab, to)
        keep(e)  == e.to # to
        chain2   == IF existing # 0
                    THEN IF HasBit(mode, BIND_BEFORE) THEN <<b>> \o chain
                         ELSE IF HasBit(mode, BIND_AFTER) THEN Append(chain, b)
                         ELSE <<b>> \o SelectSeq(chain, keep)
                    ELSE <<b>> \o chain
    IN  [tab |-> SetBucket(tab, h, chain2), n |-> n + 1]

\* the loop of remove_bind over one chain: what is left of it and how many
\* entries were unlinked
RECURSIVE RemoveScan(_, _, _)
RemoveScan(chain, from, to) ==
    IF chain = <<>> THEN [chain |-> <<>>, k |-> 0]
    ELSE LET b == Head(chain) IN
         IF b.to = to /\ (from = NULL \/ b.from = from)
         THEN IF from # NULL
              THEN [chain |-> Tail(chain), k |-> 1]
              ELSE LET r == RemoveScan(Tail(chain), from, to)
                   IN  [chain |-> r.chain, k |-> r.k + 1]
         ELSE LET r == RemoveScan(Tail(chain), from, to)
              IN  [chain |-> <<b>> \o r.chain, k |-> r.k]

\* remove_bind without the break: every match is unlinked even when `from`
\* is given
remove_bind_no_break(tab, n, from, to) ==
    LET h     == pathhash(to)
        chain == Bucket(tab, h)
        keep(b) == ~(b.to = to /\ (from = NULL \/ b.from = from))
        left  == SelectSeq(chain, keep)
    IN  [tab |-> SetBucket(tab, h, left), n |-> n - (Len(chain) - Len(left)),
         found |-> IF Len(left) < Len(chain) THEN 1 ELSE 0]

remove_bind(tab, n, from, to) ==
    LET h == pathhash(to)
        r == RemoveScan(Bucket(tab, h), from, to)
    IN  [tab |-> SetBucket(tab, h, r.chain), n |-> n - r.k,
         found |-> IF r.k > 0 THEN 1 ELSE 0]

\* ns_resolve taking the head of the bucket without comparing its `to`
ns_resolve_bucket_head(tab, fs, path) ==
    IF path = NULL THEN NULL
    ELSE LET chain == Bucket(tab, pathhash(cleanpath(fs, path)))
         IN  IF chain = <<>> THEN path ELSE chain[1].from

\* ns_resolve handing back the cleaned copy when nothing is bound
ns_resolve_returns_clean(tab, fs, path) ==
    IF path = NULL THEN NULL
    ELSE LET clean == cleanpath(fs, path)
             chain == Bucket(tab, pathhash(clean))
             hits  == {i \in 1..Len(chain) : chain[i].to = clean}
         IN  IF hits = {} THEN clean
             ELSE chain[CHOOSE i \in hits : \A j \in hits : i <= j].from

\* the value ns_resolve returns: the `from` of the first entry of the bucket
\* whose `to` is the cleaned path, else the argument itself
ns_resolve(tab, fs, path) ==
    IF path = NULL THEN NULL
    ELSE LET clean == cleanpath(fs, path)
             chain == Bucket(tab, pathhash(clean))
             hits  == {i \in 1..Len(chain) : chain[i].to = clean}
         IN  IF hits = {} THEN path
             ELSE chain[CHOOSE i \in hits : \A j \in hits : i <= j].from

\* the entry ns_lookup points at, NULL for the null pointer
ns_lookup(tab, mountpoint) ==
    LET i == find_bind(tab, mountpoint)
    IN  IF i = 0 THEN NULL ELSE Bucket(tab, pathhash(mountpoint))[i]

ns_count(n) == n

(***************************************************************************)
(* What the table holds, read without the hash: every entry, and the       *)
(* entries of one mountpoint in chain order.                               *)
(***************************************************************************)
RECURSIVE FlatFrom(_, _)
FlatFrom(tab, hs) ==
    IF hs = {} THEN <<>>
    ELSE LET h == CHOOSE x \in hs : \A y \in hs : x <= y
         IN  tab[h] \o FlatFrom(tab, hs \ {h})

Flat(tab) == FlatFrom(tab, DOMAIN tab)

EntriesFor(tab, to) == LET is(e) == e.to = to IN SelectSeq(Flat(tab), is)

OtherEntries(tab, to) == LET isnt(e) == e.to # to IN SelectSeq(Flat(tab), isnt)

FromsOf(es) == [i \in 1..Len(es) |-> es[i].from]

TotalEntries(tab) == Len(Flat(tab))

(***************************************************************************)
(* Inputs.                                                                 *)
(***************************************************************************)
SrcA == <<"/","a">>
SrcB == <<"/","b">>
SrcC == <<"/","c">>
MntM == <<"/","m">>          \* pathhash 30
MntET == <<"/","e","t">>     \* pathhash 30 as well
MntN == <<"/","n">>          \* pathhash 31

Tos == {MntM, MntET, MntN}

\* the adds offered: on /m two sources before, one after and one replacing
\* (as bind -c passes it), and on /et, which shares the bucket of /m, a source
\* that /m has too
AddInputs ==
    { <<SrcA, MntM, BIND_BEFORE>>, <<SrcB, MntM, BIND_AFTER>>,
      <<SrcC, MntM, BIND_BEFORE>>, <<SrcB, MntM, BIND_REPLACE + BIND_CREATE>>,
      <<SrcA, MntET, BIND_AFTER>> }

RemoveInputs == ({SrcA, SrcB, NULL} \X {MntM}) \cup ({SrcA, NULL} \X {MntET})

\* paths handed to ns_resolve: canonical, with trailing slashes, through a
\* symbolic link, relative, and absent from the file system
ResolvePaths ==
    { MntM, <<"/","m","/">>, <<"/","l">>, <<".",".","/","e","t">>,
      <<"/","q","/","/">> }

\* every canonical mountpoint an add of the model can name
Mountpoints == Tos \cup { <<"/","q">> }

(***************************************************************************)
(* The add log of a mountpoint: the adds made to it since it last had no   *)
(* entry.  A removal that leaves entries behind voids the log.             *)
(***************************************************************************)
Void == [mode |-> -1, from |-> NULL]

LogAdd(log, tab, from, to, mode) ==
    LET a == [mode |-> mode % 4, from |-> from] IN
    [log EXCEPT ![to] = IF EntriesFor(tab, to) = <<>> \/ mode % 4 = BIND_REPLACE
                        THEN <<a>> ELSE Append(@, a)]

LogRemove(log, tab2, to, found) ==
    IF to \notin DOMAIN log THEN log
    ELSE [log EXCEPT ![to] = IF EntriesFor(tab2, to) = <<>> THEN <<>>
                             ELSE IF found = 1 THEN <<Void>> ELSE @]

(***************************************************************************)
(* The shell when it starts: at the prompt, no child, SRV_DIR not yet      *)
(* made, the variable path set, the variable cpu unset, stdio open.        *)
(***************************************************************************)
\* outs: the wait statuses run_cmd has returned to the builtin so far; pid:
\* the child run_cmd is waiting for (0: none); junk: what the stack holds
\* where the builtin's uninitialized buffer lies
NoCmd == [op |-> "none", av |-> <<>>, outs |-> <<>>, pid |-> 0, junk |-> <<>>]

VarCpu == <<"c","p","u">>
VarPath == <<"p","a","t","h">>
VarApid == <<"a","p","i","d">>

InitPath == << <<"/","b","i","n">>, <<"/","u","s","r","/","b","i","n">> >>

InitVars == (VarPath :> InitPath)

\* SRV_DIR before anything made it; an entry is a name and a kind ("fifo",
\* "sock" or "file")
NoSrvDir == [exists |-> FALSE, ents |-> {}]

\* pgid: "parent" while the shell is in the process group it was started in,
\* "own" once it leads its own; ns counts the mount namespaces it has left
InitAttrs == [pgid |-> "parent", ns |-> 0, environ |-> {"HOME", "PATH"},
              fds |-> {0, 1, 2}]

(***************************************************************************)
(* Specification Spec: the operations of the bind table.                   *)
(***************************************************************************)
\* `had` is the number of entries the mountpoint had before the operation
Idle == [op |-> "init", from |-> NULL, to |-> NULL, mode |-> 0, ret |-> NULL,
         had |-> 0]

Init ==
    /\ bindtab = EmptyTab
    /\ nbinds = 0
    /\ dirs = InitDirs
    /\ status = TRUE
    /\ ns_bind_last = NULL
    /\ launched = <<>>
    /\ last = Idle
    /\ adds = [t \in Mountpoints |-> <<>>]
    /\ job = NoCmd
    /\ procs = <<>>
    /\ srvdir = NoSrvDir
    /\ shvars = InitVars
    /\ out = <<>>
    /\ attrs = InitAttrs

AddBind(from, to, mode) ==
    /\ nbinds < MaxEntries
    /\ LET r == add_bind(bindtab, nbinds, from, to, mode) IN
       /\ bindtab' = r.tab
       /\ nbinds' = r.n
    /\ adds' = LogAdd(adds, bindtab, from, to, mode)
    /\ last' = [op |-> "add_bind", from |-> from, to |-> to, mode |-> mode,
                ret |-> NULL, had |-> Len(EntriesFor(bindtab, to))]
    /\ UNCHANGED <<dirs, status, ns_bind_last, launched>>
    /\ UNCHANGED world

RemoveBind(from, to) ==
    /\ LET r == remove_bind(bindtab, nbinds, from, to) IN
       /\ bindtab' = r.tab
       /\ nbinds' = r.n
       /\ adds' = LogRemove(adds, r.tab, to, r.found)
       /\ last' = [op |-> "remove_bind", from |-> from, to |-> to, mode |-> 0,
                   ret |-> r.found, had |-> 0]
    /\ UNCHANGED <<dirs, status, ns_bind_last, launched>>
    /\ UNCHANGED world

NsResolve(path) ==
    /\ last' = [op |-> "ns_resolve", from |-> NULL, to |-> path, mode |-> 0,
                ret |-> ns_resolve(bindtab, dirs, path), had |-> 0]
    /\ UNCHANGED <<bindtab, nbinds, adds, dirs, status, ns_bind_last, launched>>
    /\ UNCHANGED world

DistCleanup ==
    /\ bindtab' = EmptyTab
    /\ nbinds' = 0
    /\ adds' = [t \in Mountpoints |-> <<>>]
    /\ last' = [Idle EXCEPT !.op = "dist_cleanup"]
    /\ UNCHANGED <<dirs, status, ns_bind_last, launched>>
    /\ UNCHANGED world

Next ==
    \/ \E a \in AddInputs : AddBind(a[1], a[2], a[3])
    \/ \E r \in RemoveInputs : RemoveBind(r[1], r[2])
    \/ \E path \in ResolvePaths : NsResolve(path)
    \/ DistCleanup

Spec == Init /\ [][Next]_vars

(***************************************************************************)
(* Properties of the bind table, checked under Spec.                       *)
(***************************************************************************)
ChainOf(to) == EntriesFor(bindtab, to)

\* C1: Precedence law.  A Before add becomes the first entry of its
\* mountpoint and an After add the last one; so a mountpoint that had no
\* entry and then received Before(A), After(B), Before(C) resolves in the
\* order C, A, B, whatever other mountpoints share its bucket.
PrecedenceLaw ==
    /\ \A t \in Mountpoints :
          ( /\ Len(adds[t]) = 3
            /\ adds[t][1].mode = BIND_BEFORE
            /\ adds[t][2].mode = BIND_AFTER
            /\ adds[t][3].mode = BIND_BEFORE )
          => FromsOf(ChainOf(t)) = <<adds[t][3].from, adds[t][1].from, adds[t][2].from>>
    /\ (last.op = "add_bind" /\ HasBit(last.mode, BIND_BEFORE))
          => Head(ChainOf(last.to)) = Bind(last.from, last.to, BIND_BEFORE)
    /\ (last.op = "add_bind" /\ ~HasBit(last.mode, BIND_BEFORE)
                             /\ HasBit(last.mode, BIND_AFTER))
          => ChainOf(last.to)[Len(ChainOf(last.to))]
                = Bind(last.from, last.to, BIND_AFTER)

\* /m received Before(/a), After(/b), Before(/c) while an entry of /et sat in
\* the same bucket, between the entries of /m
PrecedenceWitness ==
    /\ adds[MntM] = << [mode |-> BIND_BEFORE, from |-> SrcA],
                       [mode |-> BIND_AFTER, from |-> SrcB],
                       [mode |-> BIND_BEFORE, from |-> SrcC] >>
    /\ last.op = "add_bind" /\ last.from = SrcC
    /\ Len(Bucket(bindtab, pathhash(MntM))) = 4
    /\ Bucket(bindtab, pathhash(MntM))[3].to = MntET

\* C2: Replace law.  After a Replace add the mountpoint has exactly one
\* entry, the new one, and ns_lookup returns it; the entries it had are gone.
ReplaceLaw ==
    (last.op = "add_bind" /\ last.mode % 4 = BIND_REPLACE)
        => /\ ChainOf(last.to) = <<Bind(last.from, last.to, BIND_REPLACE)>>
           /\ ns_lookup(bindtab, last.to) = Bind(last.from, last.to, BIND_REPLACE)

\* a Replace add on /m, which had two entries, with an entry of /et in the
\* same bucket surviving it
ReplaceWitness ==
    /\ last.op = "add_bind" /\ last.mode % 4 = BIND_REPLACE /\ last.had = 2
    /\ ChainOf(MntET) # <<>>
    /\ pathhash(MntET) = pathhash(last.to)

\* C3: Count() / ns_count() equals the number of entries in the bind table.
CountIsNumberOfEntries == ns_count(nbinds) = TotalEntries(bindtab)

\* C4: Resolve returns the highest-priority source.  When the canonical form
\* of the path is the `to` of some entry, ns_resolve returns the `from` of the
\* first entry, in chain order, among the entries with that `to` (never that
\* of another mountpoint of the same bucket).
ResolveFirst ==
    (last.op = "ns_resolve" /\ ChainOf(cleanpath(dirs, last.to)) # <<>>)
        => last.ret = Head(ChainOf(cleanpath(dirs, last.to))).from

\* a path that is not canonical resolves to the source of /m although the
\* bucket starts with an entry of /et that has another source
ResolveFirstWitness ==
    /\ last.op = "ns_resolve"
    /\ last.to # cleanpath(dirs, last.to)
    /\ cleanpath(dirs, last.to) = MntM
    /\ Len(ChainOf(MntM)) >= 2
    /\ Bucket(bindtab, pathhash(MntM))[1].to = MntET
    /\ last.ret # Bucket(bindtab, pathhash(MntM))[1].from

\* C5: Resolve pass-through.  When the canonical form of the path is the `to`
\* of no entry, ns_resolve returns its argument unchanged, reports no error
\* and leaves the table and the count as they were.
ResolvePassThrough ==
    [][ (last'.op = "ns_resolve" /\ ChainOf(cleanpath(dirs, last'.to)) = <<>>)
          => /\ last'.ret = last'.to
             /\ bindtab' = bindtab
             /\ nbinds' = nbinds
             /\ status' = status ]_vars

\* an unbound path that is not canonical came back as it was given, while
\* the bucket its canonical form hashes to holds entries of other mountpoints
ResolvePassThroughWitness ==
    /\ last.op = "ns_resolve"
    /\ last.to # cleanpath(dirs, last.to)
    /\ ChainOf(cleanpath(dirs, last.to)) = <<>>
    /\ last.ret = last.to
    /\ Bucket(bindtab, pathhash(cleanpath(dirs, last.to))) # <<>>

\* C6: Unmount idempotence.  Of two Remove(from, to) calls in a row the
\* second reports that nothing was removed and leaves the table as it was.
RemoveTwiceIdempotent ==
    [][ ( /\ last.op = "remove_bind" /\ last'.op = "remove_bind"
          /\ last'.from = last.from /\ last'.to = last.to )
          => (last'.ret = 0 /\ bindtab' = bindtab) ]_vars

\* Flat(tab) without its first entry for (from, to)
RECURSIVE DropFirst(_, _, _)
DropFirst(es, from, to) ==
    IF es = <<>> THEN <<>>
    ELSE IF Head(es).to = to /\ Head(es).from = from THEN Tail(es)
    ELSE <<Head(es)>> \o DropFirst(Tail(es), from, to)

\* C7: Remove(from?, to).  With `from` it removes exactly the first entry, in
\* chain order, that matches both fields; without it every entry of `to`;
\* all other entries keep their presence and order; it returns true iff an
\* entry was removed.
RemoveFrame ==
    [][ last'.op = "remove_bind"
          => /\ Flat(bindtab') =
                  IF last'.from = NULL THEN OtherEntries(bindtab, last'.to)
                  ELSE DropFirst(Flat(bindtab), last'.from, last'.to)
             /\ (last'.ret = 1) <=> (TotalEntries(bindtab') < TotalEntries(bindtab))
             /\ last'.ret \in {0, 1} ]_vars

\* Remove(/a, /m) took one entry and left a second (/a, /m) entry and the
\* (/a, /et) entry of the same bucket in place
RemoveFrameWitness ==
    /\ last.op = "remove_bind" /\ last.from = SrcA /\ last.to = MntM
    /\ last.ret = 1
    /\ \E i \in 1..Len(ChainOf(MntM)) : ChainOf(MntM)[i].from = SrcA
    /\ \E i \in 1..Len(ChainOf(MntET)) : ChainOf(MntET)[i].from = SrcA

(***************************************************************************)
(* The builtins.  The shell state a builtin reads and writes is a record:  *)
(* tab = bindtab, n = nbinds, fs = the directories, status = the exit      *)
(* status sink, nsl = the variable ns_bind_last, launched = the tools      *)
(* run_cmd started, each with the wait status it returned.                 *)
(***************************************************************************)
Shell == [tab |-> bindtab, n |-> nbinds, fs |-> dirs, status |-> status,
          nsl |-> ns_bind_last, launched |-> launched]

\* av[i] of a null-terminated argument vector (av[1] is the command name)
Arg(av, i) == IF i <= Len(av) THEN av[i] ELSE NULL

SetBit(a, bit) == IF HasBit(a, bit) THEN a ELSE a + bit
ClearBit(a, bit) == IF HasBit(a, bit) THEN a - bit ELSE a

\* strchr(s, c) != NULL
HasChar(s, c) == \E i \in 1..Len(s) : s[i] = c

\* the switch over the characters of one flag argument; -1 for an unknown
\* flag.  `n_ok` is TRUE where -n is accepted (mount).
RECURSIVE FlagChars(_, _, _)
FlagChars(f, mode, n_ok) ==
    IF f = <<>> THEN mode
    ELSE CASE Head(f) = "a"
                -> FlagChars(Tail(f), SetBit(ClearBit(mode, BIND_BEFORE), BIND_AFTER), n_ok)
           [] Head(f) = "b"
                -> FlagChars(Tail(f), SetBit(ClearBit(mode, BIND_AFTER), BIND_BEFORE), n_ok)
           [] Head(f) = "c"
                -> FlagChars(Tail(f), SetBit(mode, BIND_CREATE), n_ok)
           [] Head(f) = "n" /\ n_ok
                -> FlagChars(Tail(f), mode, n_ok)
           [] OTHER -> -1

\* the flag loop of b_bind from av[i] on: err, or the mode and the index of
\* the first operand
RECURSIVE BindFlags(_, _, _)
BindFlags(av, i, mode) ==
    IF Arg(av, i) # NULL /\ Arg(av, i) # <<>> /\ Head(av[i]) = "-"
    THEN LET m == FlagChars(Tail(av[i]), mode, FALSE) IN
         IF m < 0 THEN [err |-> TRUE, mode |-> mode, i |-> i]
         ELSE BindFlags(av, i + 1, m)
    ELSE [err |-> FALSE, mode |-> mode, i |-> i]

Failed(S) == [S EXCEPT !.status = FALSE, !.launched = <<>>]

\* b_bind adding the entry before it validates the mountpoint
b_bind_adds_first(S, av) ==
    LET p    == BindFlags(av, 2, BIND_REPLACE)
        from == Arg(av, p.i)
        to   == Arg(av, p.i + 1)
        e    == ensuredir(S.fs, to, p.mode)
        fs2  == e.fs
        cfrom == cleanpath(fs2, from)
        cto   == cleanpath(fs2, to)
        a     == add_bind(S.tab, S.n, cfrom, cto, p.mode)
    IN  IF p.err THEN Failed(S)
        ELSE IF from = NULL \/ to = NULL THEN Failed(S)
        ELSE IF Arg(av, p.i + 2) # NULL THEN Failed(S)
        ELSE IF ~isdir(S.fs, from) /\ ~stat_ok(S.fs, from) THEN Failed(S)
        ELSE IF e.ret # 0 /\ ~isdir(fs2, to) /\ ~stat_ok(fs2, to)
             THEN [Failed(S) EXCEPT !.tab = a.tab, !.n = a.n]
        ELSE [tab |-> a.tab, n |-> a.n, fs |-> fs2, status |-> TRUE,
              nsl |-> cfrom \o <<" ">> \o cto, launched |-> <<>>]

\* b_bind exporting the operands as they were typed
b_bind_exports_raw(S, av) ==
    LET p    == BindFlags(av, 2, BIND_REPLACE)
        from == Arg(av, p.i)
        to   == Arg(av, p.i + 1)
        e    == ensuredir(S.fs, to, p.mode)
        fs2  == e.fs
        cfrom == cleanpath(fs2, from)
        cto   == cleanpath(fs2, to)
        a     == add_bind(S.tab, S.n, cfrom, cto, p.mode)
    IN  IF p.err THEN Failed(S)
        ELSE IF from = NULL \/ to = NULL THEN Failed(S)
        ELSE IF Arg(av, p.i + 2) # NULL THEN Failed(S)
        ELSE IF ~isdir(S.fs, from) /\ ~stat_ok(S.fs, from) THEN Failed(S)
        ELSE IF e.ret # 0 /\ ~isdir(fs2, to) /\ ~stat_ok(fs2, to) THEN Failed(S)
        ELSE [tab |-> a.tab, n |-> a.n, fs |-> fs2, status |-> TRUE,
              nsl |-> from \o <<" ">> \o to, launched |-> <<>>]

b_bind(S, av) ==
    LET p    == BindFlags(av, 2, BIND_REPLACE)
        from == Arg(av, p.i)
        to   == Arg(av, p.i + 1)
        e    == ensuredir(S.fs, to, p.mode)
        fs2  == e.fs
        cfrom == cleanpath(fs2, from)
        cto   == cleanpath(fs2, to)
        a     == add_bind(S.tab, S.n, cfrom, cto, p.mode)
    IN  IF p.err THEN Failed(S)
        ELSE IF from = NULL \/ to = NULL THEN Failed(S)
        ELSE IF Arg(av, p.i + 2) # NULL THEN Failed(S)
        ELSE IF ~isdir(S.fs, from) /\ ~stat_ok(S.fs, from) THEN Failed(S)
        ELSE IF e.ret # 0 /\ ~isdir(fs2, to) /\ ~stat_ok(fs2, to) THEN Failed(S)
        ELSE [tab |-> a.tab, n |-> a.n, fs |-> fs2, status |-> TRUE,
              nsl |-> cfrom \o <<" ">> \o cto, launched |-> <<>>]

\* b_addns handing "-b" to bind
b_addns_before(S, av) ==
    IF Arg(av, 2) = NULL \/ Arg(av, 3) = NULL THEN Failed(S)
    ELSE b_bind(S, << <<"b","i","n","d">>, <<"-","b">>, av[2], av[3] >>)

b_addns(S, av) ==
    IF Arg(av, 2) = NULL \/ Arg(av, 3) = NULL THEN Failed(S)
    ELSE b_bind(S, << <<"b","i","n","d">>, <<"-","a">>, av[2], av[3] >>)

\* the wait status run_cmd returns: WIFEXITED(stat) && WEXITSTATUS(stat) == 0
WIFEXITED(stat) == stat >= 0 /\ stat % 128 = 0
WEXITSTATUS(stat) == (stat \div 256) % 256
ExitedZero(stat) == WIFEXITED(stat) /\ WEXITSTATUS(stat) = 0

\* the flag loop of b_mount from av[i] on
RECURSIVE MountFlags(_, _, _, _)
MountFlags(av, i, mode, spec) ==
    IF Arg(av, i) # NULL /\ Arg(av, i) # <<>> /\ Head(av[i]) = "-"
    THEN IF Tail(av[i]) = <<"s">>
         THEN IF Arg(av, i + 1) = NULL
              THEN [err |-> TRUE, mode |-> mode, i |-> i, spec |-> NULL]
              ELSE MountFlags(av, i + 2, mode, av[i + 1])
         ELSE LET m == FlagChars(Tail(av[i]), mode, TRUE) IN
              IF m < 0 THEN [err |-> TRUE, mode |-> mode, i |-> i, spec |-> spec]
              ELSE MountFlags(av, i + 1, m, spec)
    ELSE [err |-> FALSE, mode |-> mode, i |-> i, spec |-> spec]

SshfsCmd(addr, mountpoint, spec) ==
    << <<"s","s","h","f","s">>, addr, mountpoint, <<"-","o">>,
       <<"r","e","c","o","n","n","e","c","t",",","S","e","r","v","e","r","A","l","i","v","e","I","n","t","e","r","v","a","l","=","1","5">> >>
       \o (IF spec # NULL THEN << <<"-","o">>, spec >> ELSE <<>>)

MountCmd(addr, mountpoint, spec) ==
    << <<"m","o","u","n","t">> >> \o (IF spec # NULL THEN << <<"-","t">>, spec >> ELSE <<>>)
        \o << addr, mountpoint >>

Ran(argv, stat) == [argv |-> argv, stat |-> stat]

\* b_mount trying sshfs whatever the shape of the address
b_mount_sshfs_always(S, av, outs) ==
    LET p   == MountFlags(av, 2, BIND_REPLACE, NULL)
        addr == Arg(av, p.i)
        mountpoint == Arg(av, p.i + 1)
        e   == ensuredir(S.fs, mountpoint, SetBit(p.mode, BIND_CREATE))
        a   == add_bind(S.tab, S.n, cleanpath(e.fs, addr),
                        cleanpath(e.fs, mountpoint), p.mode)
        run1 == <<Ran(SshfsCmd(addr, mountpoint, p.spec), outs[1])>>
        run2 == Append(run1, Ran(MountCmd(addr, mountpoint, p.spec), outs[2]))
        bound(run) == [tab |-> a.tab, n |-> a.n, fs |-> e.fs, status |-> TRUE,
                       nsl |-> S.nsl, launched |-> run]
    IN  IF p.err THEN Failed(S)
        ELSE IF addr = NULL \/ mountpoint = NULL THEN Failed(S)
        ELSE IF e.ret # 0 THEN Failed(S)
        ELSE IF ExitedZero(outs[1]) THEN bound(run1)
        ELSE IF ExitedZero(outs[2]) THEN bound(run2)
        ELSE [S EXCEPT !.fs = e.fs, !.status = FALSE, !.launched = run2]

\* b_mount recording the bind before it runs the transport tools
b_mount_binds_first(S, av, outs) ==
    LET p   == MountFlags(av, 2, BIND_REPLACE, NULL)
        addr == Arg(av, p.i)
        mountpoint == Arg(av, p.i + 1)
        e   == ensuredir(S.fs, mountpoint, SetBit(p.mode, BIND_CREATE))
        a   == add_bind(S.tab, S.n, cleanpath(e.fs, addr),
                        cleanpath(e.fs, mountpoint), p.mode)
        run == <<Ran(MountCmd(addr, mountpoint, p.spec), outs[1])>>
    IN  IF p.err THEN Failed(S)
        ELSE IF addr = NULL \/ mountpoint = NULL THEN Failed(S)
        ELSE IF e.ret # 0 THEN Failed(S)
        ELSE [tab |-> a.tab, n |-> a.n, fs |-> e.fs,
              status |-> ExitedZero(outs[1]), nsl |-> S.nsl, launched |-> run]

\* outs[k] is the wait status run_cmd returns for the k-th tool it runs
b_mount(S, av, outs) ==
    LET p   == MountFlags(av, 2, BIND_REPLACE, NULL)
        addr == Arg(av, p.i)
        mountpoint == Arg(av, p.i + 1)
        e   == ensuredir(S.fs, mountpoint, SetBit(p.mode, BIND_CREATE))
        fs2 == e.fs
        a   == add_bind(S.tab, S.n, cleanpath(fs2, addr),
                        cleanpath(fs2, mountpoint), p.mode)
        remote == HasChar(addr, ":") /\ HasChar(addr, "/")
        run1 == IF remote THEN <<Ran(SshfsCmd(addr, mountpoint, p.spec), outs[1])>>
                ELSE <<>>
        run2 == Append(run1, Ran(MountCmd(addr, mountpoint, p.spec),
                                 outs[Len(run1) + 1]))
        bound(run) == [tab |-> a.tab, n |-> a.n, fs |-> fs2, status |-> TRUE,
                       nsl |-> S.nsl, launched |-> run]
    IN  IF p.err THEN Failed(S)
        ELSE IF addr = NULL \/ mountpoint = NULL THEN Failed(S)
        ELSE IF e.ret # 0 THEN Failed(S)
        ELSE IF remote /\ ExitedZero(outs[1]) THEN bound(run1)
        ELSE IF ExitedZero(outs[Len(run1) + 1]) THEN bound(run2)
        ELSE [S EXCEPT !.fs = fs2, !.status = FALSE, !.launched = run2]

(***************************************************************************)
(* Specification SpecCmd: the shell running bind, addns and mount.  The    *)
(* add log `adds` is kept by the actions of Spec only.                     *)
(***************************************************************************)
MaxBinds == 3   \* the builtins are offered while nbinds is below this

\* /a, /b, /m exist; /zz, /q and /x do not; h:/x has the host:/path shape
BindArgvs ==
    { << <<"b","i","n","d">> >>,
      << <<"b","i","n","d">>, <<"-","x">>, <<"/","a">>, <<"/","m">> >>,
      << <<"b","i","n","d">>, <<"/","a">>, <<"/","m">>, <<"/","n">> >>,
      << <<"b","i","n","d">>, <<"/","z","z">>, <<"/","m">> >>,
      << <<"b","i","n","d">>, <<"/","a">>, <<"/","q">> >>,
      << <<"b","i","n","d">>, <<"/","a">>, <<"/","m">> >>,
      << <<"b","i","n","d">>, <<"-","b">>, <<"/","a">>, <<"/","m">> >>,
      << <<"b","i","n","d">>, <<"-","a">>, <<"/","b">>, <<"/","m","/">> >>,
      << <<"b","i","n","d">>, <<"-","c">>, <<"/","a">>, <<"/","q">> >>,
      << <<"b","i","n","d">>, <<"-","a">>, <<"-","b">>, <<"/","m">> >> }

AddnsArgvs ==
    { << <<"a","d","d","n","s">> >>,
      << <<"a","d","d","n","s">>, <<"/","a">> >>,
      << <<"a","d","d","n","s">>, <<"/","b">>, <<"/","m","/">> >>,
      << <<"a","d","d","n","s">>, <<"-","b">>, <<"/","m">> >>,
      << <<"a","d","d","n","s">>, <<"/","a">>, <<"/","q">> >>,
      << <<"a","d","d","n","s">>, <<"/","z","z">>, <<"/","m">> >> }

MountArgvs ==
    { << <<"m","o","u","n","t">> >>,
      << <<"m","o","u","n","t">>, <<"-","s">> >>,
      << <<"m","o","u","n","t">>, <<"-","x">>, <<"/","a">>, <<"/","m">> >>,
      << <<"m","o","u","n","t">>, <<"h",":","/","x">>, <<"/","m">> >>,
      << <<"m","o","u","n","t">>, <<"-","a">>, <<"/","a">>, <<"/","q">> >>,
      << <<"m","o","u","n","t">>, <<"/","a">>, <<"/","x","/","y">> >>,
      << <<"m","o","u","n","t">>, <<"-","c">>, <<"h",":","/","x">>, <<"/","q">> >>,
      << <<"m","o","u","n","t">>, <<"-","n">>, <<"-","s">>, <<"t">>, <<"h",":","/","x">>, <<"/","m">> >> }

\* wait statuses run_cmd can return: exit 0, exit 1, killed by signal 9, and
\* -1 when fork failed
WaitStatuses == {0, 256, 9, -1}

\* the statuses of the tools of one builtin, in launch order: nothing runs
\* after a tool that exited 0
Outcomes ==
    { <<0, 0>> } \cup { <<o1, o2>> : o1 \in WaitStatuses \ {0}, o2 \in WaitStatuses }

Apply(Result) ==
    LET R == Result IN
    /\ bindtab' = R.tab
    /\ nbinds' = R.n
    /\ dirs' = R.fs
    /\ status' = R.status
    /\ ns_bind_last' = R.nsl
    /\ launched' = R.launched

BBind(av) ==
    /\ nbinds < MaxBinds
    /\ Apply(b_bind(Shell, av))
    /\ last' = [op |-> "bind", av |-> av]
    /\ UNCHANGED adds
    /\ UNCHANGED world

BAddns(av) ==
    /\ nbinds < MaxBinds
    /\ Apply(b_addns(Shell, av))
    /\ last' = [op |-> "addns", av |-> av]
    /\ UNCHANGED adds
    /\ UNCHANGED world

BMount(av, outs) ==
    /\ nbinds < MaxBinds
    /\ Apply(b_mount(Shell, av, outs))
    /\ last' = [op |-> "mount", av |-> av]
    /\ UNCHANGED adds
    /\ UNCHANGED world

NextCmd ==
    \/ \E av \in BindArgvs : BBind(av)
    \/ \E av \in AddnsArgvs : BAddns(av)
    \/ \E av \in MountArgvs, outs \in Outcomes : BMount(av, outs)

SpecCmd == Init /\ [][NextCmd]_vars

(***************************************************************************)
(* Properties of the builtins, checked under SpecCmd.                      *)
(***************************************************************************)
\* C8: Addns equivalence.  addns A B leaves the bind table, the entry count,
\* the exit status and ns_bind_last as bind -a A B would from the same state.
AddnsIsBindAfter ==
    [][ (last'.op = "addns" /\ Len(last'.av) = 3)
          => LET R == b_bind(Shell, << <<"b","i","n","d">>, <<"-","a">>, last'.av[2], last'.av[3] >>)
             IN  /\ bindtab' = R.tab
                 /\ nbinds' = R.n
                 /\ status' = R.status
                 /\ ns_bind_last' = R.nsl ]_vars

\* addns /b /m/ succeeded on a /m that had an entry: the new entry is the
\* last of /m, in mode After, and ns_bind_last names it
AddnsWitness ==
    /\ last.op = "addns" /\ last.av = << <<"a","d","d","n","s">>, <<"/","b">>, <<"/","m","/">> >>
    /\ status = TRUE
    /\ Len(ChainOf(MntM)) >= 2
    /\ ChainOf(MntM)[Len(ChainOf(MntM))] = Bind(SrcB, MntM, BIND_AFTER)
    /\ Head(ChainOf(MntM)).from # SrcB
    /\ ns_bind_last = SrcB \o <<" ">> \o MntM

\* the operands and the mode of a mount command line
MountOperands(av) ==
    LET p == MountFlags(av, 2, BIND_REPLACE, NULL)
    IN  [given |-> ~p.err /\ Arg(av, p.i) # NULL /\ Arg(av, p.i + 1) # NULL,
         addr |-> Arg(av, p.i), mountpoint |-> Arg(av, p.i + 1), mode |-> p.mode]

AnyExitedZero(runs) == \E i \in 1..Len(runs) : ExitedZero(runs[i].stat)

\* C9: Mount atomicity.  If every transport strategy of mount fails, mount
\* reports failure and the bind table and the entry count are as before (as
\* they are whenever mount reports failure); if a strategy succeeds, mount
\* reports success and has recorded exactly one Add(address, mountpoint, mode).
MountAtomic ==
    [][ last'.op = "mount"
          => /\ (launched' # <<>> /\ ~AnyExitedZero(launched'))
                   => (status' = FALSE /\ bindtab' = bindtab /\ nbinds' = nbinds)
             /\ status' = FALSE => (bindtab' = bindtab /\ nbinds' = nbinds)
             /\ AnyExitedZero(launched')
                   => \A m \in {MountOperands(last'.av)} :
                      \A cfrom \in {cleanpath(dirs', m.addr)} :
                      \A cto \in {cleanpath(dirs', m.mountpoint)} :
                      \A added \in {add_bind(bindtab, nbinds, cfrom, cto, m.mode)} :
                         /\ status' = TRUE
                         /\ bindtab' = added.tab
                         /\ nbinds' = added.n ]_vars

\* sshfs and then mount(8) both failed for a mount on /m, which reported
\* failure with the table still holding entries
MountAtomicWitness ==
    /\ last.op = "mount"
    /\ Len(launched) = 2
    /\ ~AnyExitedZero(launched)
    /\ status = FALSE
    /\ TotalEntries(bindtab) >= 2

\* C10: mount creates a missing mountpoint only with -c: without -c, on a
\* mountpoint that does not exist, it creates no directory, launches no
\* transport tool and fails.
MountCreatesOnlyWithFlag ==
    [][ ( /\ last'.op = "mount"
          /\ MountOperands(last'.av).given
          /\ ~HasBit(MountOperands(last'.av).mode, BIND_CREATE)
          /\ ~stat_ok(dirs, MountOperands(last'.av).mountpoint) )
          => (dirs' = dirs /\ launched' = <<>> /\ status' = FALSE) ]_vars

(***************************************************************************)
(* The builtins that run tools or touch the service registry work on the   *)
(* shell record extended with srv = SRV_DIR, shv = the shell variables,    *)
(* out = the lines printed and procs = the children forked.  A line is a   *)
(* record: the descriptor it went to, what it says, the name or path it is *)
(* about, and for a listing line the kind of the entry.                    *)
(***************************************************************************)
ShellX == [tab |-> bindtab, n |-> nbinds, fs |-> dirs, status |-> status,
           nsl |-> ns_bind_last, launched |-> launched,
           srv |-> srvdir, shv |-> shvars, out |-> out, procs |-> procs]

Msg(fd, what, arg) == [fd |-> fd, what |-> what, arg |-> arg, kind |-> ""]

\* a builtin starts with nothing launched and nothing printed
Enter(S) == [S EXCEPT !.launched = <<>>, !.out = <<>>]

\* fprint(2, ...); set(FALSE); return
Fail(S, what, arg) == [Enter(S) EXCEPT !.status = FALSE, !.out = <<Msg(2, what, arg)>>]

UmountCmd(mp) == << <<"u","m","o","u","n","t">>, mp >>
FusermountCmd(mp) == << <<"f","u","s","e","r","m","o","u","n","t">>, <<"-","u">>, mp >>

\* b_unmount reporting what the tools did and not what the table lost
b_unmount_tools_only(S, av, outs) ==
    LET from == IF Arg(av, 3) # NULL THEN av[2] ELSE NULL
        mp   == IF Arg(av, 3) # NULL THEN av[3] ELSE Arg(av, 2)
        r    == remove_bind(S.tab, S.n, from, mp)
        run1 == <<Ran(UmountCmd(mp), outs[1])>>
        run2 == Append(run1, Ran(FusermountCmd(mp), outs[2]))
    IN  IF Arg(av, 2) = NULL THEN Fail(S, "usage", <<>>)
        ELSE IF Arg(av, 3) # NULL /\ Arg(av, 4) # NULL
             THEN Fail(S, "too many arguments", <<>>)
        ELSE IF ExitedZero(outs[1])
             THEN [Enter(S) EXCEPT !.tab = r.tab, !.n = r.n, !.launched = run1,
                                   !.status = TRUE]
        ELSE IF ExitedZero(outs[2])
             THEN [Enter(S) EXCEPT !.tab = r.tab, !.n = r.n, !.launched = run2,
                                   !.status = TRUE]
        ELSE [Enter(S) EXCEPT !.tab = r.tab, !.n = r.n, !.launched = run2,
                              !.status = FALSE,
                              !.out = <<Msg(2, "not mounted", mp)>>]

\* outs[k] is the wait status run_cmd returns for the k-th tool it runs
b_unmount(S, av, outs) ==
    LET from == IF Arg(av, 3) # NULL THEN av[2] ELSE NULL
        mp   == IF Arg(av, 3) # NULL THEN av[3] ELSE Arg(av, 2)
        r    == remove_bind(S.tab, S.n, from, mp)
        run1 == <<Ran(UmountCmd(mp), outs[1])>>
        found1 == r.found # 0 \/ ExitedZero(outs[1])
        run2 == Append(run1, Ran(FusermountCmd(mp), outs[2]))
    IN  IF Arg(av, 2) = NULL THEN Fail(S, "usage", <<>>)
        ELSE IF Arg(av, 3) # NULL /\ Arg(av, 4) # NULL
             THEN Fail(S, "too many arguments", <<>>)
        ELSE IF found1
             THEN [Enter(S) EXCEPT !.tab = r.tab, !.n = r.n, !.launched = run1,
                                   !.status = TRUE]
        ELSE IF ExitedZero(outs[2])
             THEN [Enter(S) EXCEPT !.tab = r.tab, !.n = r.n, !.launched = run2,
                                   !.status = TRUE]
        ELSE [Enter(S) EXCEPT !.tab = r.tab, !.n = r.n, !.launched = run2,
                              !.status = FALSE,
                              !.out = <<Msg(2, "not mounted", mp)>>]

ImportSshfsCmd(addr, mp) ==
    << <<"s","s","h","f","s">>, addr, mp, <<"-","o">>,
       <<"r","e","c","o","n","n","e","c","t",",","S","e","r","v","e","r","A","l","i","v","e","I","n","t","e","r","v","a","l","=","1","5",",","f","o","l","l","o","w","_","s","y","m","l","i","n","k","s">> >>

NinePfuseCmd(addr, mp) == << <<"9","p","f","u","s","e">>, addr, mp >>

\* b_import trying 9pfuse before sshfs
b_import_9pfuse_first(S, av, outs) ==
    LET p    == BindFlags(av, 2, BIND_REPLACE)
        host == Arg(av, p.i)
        path == Arg(av, p.i + 1)
        mp   == IF Arg(av, p.i + 2) # NULL THEN av[p.i + 2] ELSE path
        e    == ensuredir(S.fs, mp, SetBit(p.mode, BIND_CREATE))
        addr == host \o <<":">> \o path
        a    == add_bind(S.tab, S.n, cleanpath(e.fs, addr), cleanpath(e.fs, mp), p.mode)
        run1 == <<Ran(NinePfuseCmd(addr, mp), outs[1])>>
        run2 == Append(run1, Ran(ImportSshfsCmd(addr, mp), outs[2]))
        bound(run) == [Enter(S) EXCEPT !.tab = a.tab, !.n = a.n, !.fs = e.fs,
                                       !.status = TRUE, !.launched = run]
    IN  IF p.err THEN Fail(S, "unknown flag", <<>>)
        ELSE IF host = NULL \/ path = NULL THEN Fail(S, "usage", <<>>)
        ELSE IF e.ret # 0 THEN Fail(S, "cannot create", mp)
        ELSE IF ExitedZero(outs[1]) THEN bound(run1)
        ELSE IF ExitedZero(outs[2]) THEN bound(run2)
        ELSE [Enter(S) EXCEPT !.fs = e.fs, !.status = FALSE, !.launched = run2,
                              !.out = <<Msg(2, "could not import", path)>>]

\* snprintf(addr, sizeof(addr), "%s:%s", host, path), for a host and a path
\* that fit the buffer
b_import(S, av, outs) ==
    LET p    == BindFlags(av, 2, BIND_REPLACE)
        host == Arg(av, p.i)
        path == Arg(av, p.i + 1)
        mp   == IF Arg(av, p.i + 2) # NULL THEN av[p.i + 2] ELSE path
        e    == ensuredir(S.fs, mp, SetBit(p.mode, BIND_CREATE))
        addr == host \o <<":">> \o path
        a    == add_bind(S.tab, S.n, cleanpath(e.fs, addr), cleanpath(e.fs, mp), p.mode)
        run1 == <<Ran(ImportSshfsCmd(addr, mp), outs[1])>>
        run2 == Append(run1, Ran(NinePfuseCmd(addr, mp), outs[2]))
        bound(run) == [Enter(S) EXCEPT !.tab = a.tab, !.n = a.n, !.fs = e.fs,
                                       !.status = TRUE, !.launched = run]
    IN  IF p.err THEN Fail(S, "unknown flag", <<>>)
        ELSE IF host = NULL \/ path = NULL THEN Fail(S, "usage", <<>>)
        ELSE IF e.ret # 0 THEN Fail(S, "cannot create", mp)
        ELSE IF ExitedZero(outs[1]) THEN bound(run1)
        ELSE IF ExitedZero(outs[2]) THEN bound(run2)
        ELSE [Enter(S) EXCEPT !.fs = e.fs, !.status = FALSE, !.launched = run2,
                              !.out = <<Msg(2, "could not import", path)>>]

(***************************************************************************)
(* cpu: the remote executor.                                               *)
(***************************************************************************)
ENVBUF_SIZE == 8192
CMDBUF_SIZE == 4096

\* varlookup(name): the list of words of the variable, <<>> (the null list)
\* when it is unset
varlookup(shv, name) == IF name \in DOMAIN shv THEN shv[name] ELSE <<>>

\* varassign(name, list, FALSE)
varassign(shv, name, list) ==
    [v \in DOMAIN shv \cup {name} |-> IF v = name THEN list ELSE shv[v]]

Min(a, b) == IF a < b THEN a ELSE b

\* off += snprintf(buf + off, cap - off, "%s", str): the string the buffer
\* holds afterwards and the count added to off.  snprintf stores at most
\* cap - off - 1 characters and returns the full length of str; once off has
\* passed cap the size argument wraps around and the write leaves the buffer
\* (ovf).
\* (b0 and str0 are evaluated once and bound to b and str)
Snprintf(b0, cap, str0) ==
    CHOOSE r \in
      { IF b.ovf \/ b.off > cap THEN [b EXCEPT !.ovf = TRUE, !.off = @ + Len(str)]
        ELSE IF b.off = cap THEN [b EXCEPT !.off = @ + Len(str)]
        ELSE [buf |-> SubSeq(b.buf, 1, b.off)
                        \o SubSeq(str, 1, Min(Len(str), cap - b.off - 1)),
              off |-> b.off + Len(str), ovf |-> FALSE]
        : b \in {b0}, str \in {str0} } : TRUE

\* the loop over the words of $path: "%s%s", s->w, s->n ? ":" : ""
RECURSIVE PathWords(_, _)
PathWords(b, s) ==
    IF s = <<>> THEN b
    ELSE PathWords(Snprintf(b, ENVBUF_SIZE,
                            Head(s) \o (IF Tail(s) # <<>> THEN <<":">> ELSE <<>>)),
                   Tail(s))

\* envbuf after the preamble is built; with path unset nothing is written to
\* it and it holds whatever the stack held (junk)
EnvPreamble(path, junk) ==
    IF path = <<>> THEN [buf |-> junk, off |-> 0, ovf |-> FALSE]
    ELSE Snprintf(PathWords(Snprintf([buf |-> <<>>, off |-> 0, ovf |-> FALSE],
                                     ENVBUF_SIZE, <<"P","A","T","H","=">>),
                            path),
                  ENVBUF_SIZE, <<";"," ">>)

\* one argument as the loop appends it: wrapped in single quotes when it
\* holds a space or a tab
QuoteArg(arg) ==
    IF HasChar(arg, " ") \/ HasChar(arg, "\t")
    THEN <<"'">> \o arg \o <<"'">>
    ELSE arg

\* the loop over the command and its arguments, p = av + i
RECURSIVE CmdWords(_, _, _)
CmdWords(b, args, first) ==
    IF args = <<>> THEN b
    ELSE LET b1 == IF first THEN b ELSE Snprintf(b, CMDBUF_SIZE, <<" ">>)
         IN  CmdWords(Snprintf(b1, CMDBUF_SIZE, QuoteArg(Head(args))),
                      Tail(args), FALSE)

\* cmdbuf after the block that builds the command string
CmdBuf(env, args) ==
    CmdWords(Snprintf([buf |-> <<>>, off |-> 0, ovf |-> FALSE], CMDBUF_SIZE, env.buf),
             args, TRUE)

\* the flag loop of b_cpu from av[i] on
RECURSIVE CpuFlags(_, _, _, _, _)
CpuFlags(av, i, host, user, agent) ==
    IF Arg(av, i) # NULL /\ Arg(av, i) # <<>> /\ Head(av[i]) = "-"
    THEN LET f == Tail(av[i]) IN
         IF f # <<>> /\ Head(f) = "h"
         THEN IF Tail(f) # <<>> THEN CpuFlags(av, i + 1, Tail(f), user, agent)
              ELSE IF Arg(av, i + 1) # NULL
                   THEN CpuFlags(av, i + 2, av[i + 1], user, agent)
              ELSE [err |-> "-h requires argument", i |-> i, host |-> host,
                    user |-> user, agent |-> agent]
         ELSE IF f # <<>> /\ Head(f) = "u"
         THEN IF Tail(f) # <<>> THEN CpuFlags(av, i + 1, host, Tail(f), agent)
              ELSE IF Arg(av, i + 1) # NULL
                   THEN CpuFlags(av, i + 2, host, av[i + 1], agent)
              ELSE [err |-> "-u requires argument", i |-> i, host |-> host,
                    user |-> user, agent |-> agent]
         ELSE IF f # <<>> /\ Head(f) = "A"
         THEN CpuFlags(av, i + 1, host, user, TRUE)
         ELSE [err |-> "unknown flag", i |-> i, host |-> host, user |-> user,
               agent |-> agent]
    ELSE [err |-> "", i |-> i, host |-> host, user |-> user, agent |-> agent]

SshCmd(agent, user, host, remote_cmd) ==
    << <<"s","s","h">> >> \o (IF agent THEN << <<"-","A">> >> ELSE <<>>)
       \o << <<"-","o">>, <<"B","a","t","c","h","M","o","d","e","=","y","e","s">> >>
       \o (IF user # NULL THEN << <<"-","l">>, user >> ELSE <<>>)
       \o << host, remote_cmd >>

\* b_cpu letting $cpu override the host given with -h
b_cpu_var_first(S, av, outs, junk) ==
    LET p     == CpuFlags(av, 2, NULL, NULL, FALSE)
        s     == varlookup(S.shv, VarCpu)
        host  == IF s # <<>> THEN Head(s) ELSE p.host
        args  == SubSeq(av, p.i, Len(av))
        cmd   == CmdBuf(EnvPreamble(varlookup(S.shv, VarPath), junk), args)
    IN  IF p.err # "" THEN Fail(S, p.err, <<>>)
        ELSE IF host = NULL THEN Fail(S, "no host specified", <<>>)
        ELSE IF args = <<>> THEN Fail(S, "usage", <<>>)
        ELSE [Enter(S) EXCEPT
                 !.launched = <<Ran(SshCmd(p.agent, p.user, host, cmd.buf), outs[1])>>,
                 !.status = (outs[1] = 0)]

\* setstatus(-1, stat) hands the wait status to the status sink, which is
\* true for status 0 only
b_cpu(S, av, outs, junk) ==
    LET p     == CpuFlags(av, 2, NULL, NULL, FALSE)
        s     == varlookup(S.shv, VarCpu)
        host  == IF p.host # NULL THEN p.host
                 ELSE IF s # <<>> THEN Head(s) ELSE NULL
        args  == SubSeq(av, p.i, Len(av))
        cmd   == CmdBuf(EnvPreamble(varlookup(S.shv, VarPath), junk), args)
    IN  IF p.err # "" THEN Fail(S, p.err, <<>>)
        ELSE IF host = NULL THEN Fail(S, "no host specified", <<>>)
        ELSE IF args = <<>> THEN Fail(S, "usage", <<>>)
        ELSE [Enter(S) EXCEPT
                 !.launched = <<Ran(SshCmd(p.agent, p.user, host, cmd.buf), outs[1])>>,
                 !.status = (outs[1] = 0)]

(***************************************************************************)
(* srv: the service registry.  The name of an entry of SRV_DIR holds no     *)
(* slash.                                                                  *)
(***************************************************************************)
SRV_DIR == <<"/","t","m","p","/","r","c","-","s","r","v">>

SrvPath(name) == SRV_DIR \o <<"/">> \o name

\* snprintf(varname, sizeof(varname), "srv_%s", name)
SrvVar(name) == <<"s","r","v","_">> \o name

Digit == <<"0","1","2","3","4","5","6","7","8","9">>

\* nprint("%d", pid)
RECURSIVE Decimal(_)
Decimal(k) == IF k < 10 THEN <<Digit[k + 1]>>
              ELSE Append(Decimal(k \div 10), Digit[(k % 10) + 1])

\* ensure_srvdir: SRV_DIR is made when stat does not find it
ensure_srvdir(srv) == [srv EXCEPT !.exists = TRUE]

\* stat(srvpath, &st) == 0
SrvStat(srv, name) == srv.exists /\ \E e \in srv.ents : e.name = name

\* unlink(srvpath)
SrvUnlink(srv, name) == [srv EXCEPT !.ents = {e \in @ : e.name # name}]

\* mkfifo(srvpath, 0666) where the path is free
SrvMkfifo(srv, name) ==
    [srv EXCEPT !.ents = @ \cup {[name |-> name, kind |-> "fifo"]}]

\* the flag loop of b_srv from av[i] on: -1 for an unknown flag
RECURSIVE SrvFlagChars(_, _)
SrvFlagChars(f, remove) ==
    IF f = <<>> THEN remove
    ELSE IF Head(f) = "r" THEN SrvFlagChars(Tail(f), 1) ELSE -1

RECURSIVE SrvFlags(_, _, _)
SrvFlags(av, i, remove) ==
    IF Arg(av, i) # NULL /\ Arg(av, i) # <<>> /\ Head(av[i]) = "-"
    THEN LET r == SrvFlagChars(Tail(av[i]), remove) IN
         IF r < 0 THEN [err |-> TRUE, i |-> i, remove |-> remove]
         ELSE SrvFlags(av, i + 1, r)
    ELSE [err |-> FALSE, i |-> i, remove |-> remove]

\* the readdir loop: one line for every entry whose name does not start with
\* a dot, in the order readdir yields them
RECURSIVE SrvListing(_)
SrvListing(ents) ==
    IF ents = {} THEN <<>>
    ELSE LET ent  == CHOOSE x \in ents : TRUE
             rest == SrvListing(ents \ {ent})
         IN  IF ent.name # <<>> /\ Head(ent.name) = "."
             THEN rest
             ELSE << [fd |-> 1, what |-> "entry", arg |-> ent.name,
                      kind |-> ent.kind] >> \o rest

\* the child of srv; fifo is the FIFO it has on descriptors 0 and 1, named by
\* the pid of the worker it was made for (0: none)
Worker(name, argv) ==
    [argv |-> argv, kind |-> "worker", state |-> "forked", stat |-> 0,
     name |-> name, fifo |-> 0]

\* the FIFO now at SRV_DIR/name: the one made by the latest srv name cmd
\* that forked a worker
FifoAt(ps, name) ==
    CHOOSE q \in DOMAIN ps :
       /\ ps[q].kind = "worker" /\ ps[q].name = name
       /\ \A r \in DOMAIN ps :
             (ps[r].kind = "worker" /\ ps[r].name = name) => r <= q

\* b_srv whose -r reports success without the unlink
b_srv_no_unlink(S, av, fork_ok) ==
    LET p    == SrvFlags(av, 2, 0)
        srv  == ensure_srvdir(S.srv)
        S1   == [Enter(S) EXCEPT !.srv = srv]
        list == SrvListing(srv.ents)
        name == Arg(av, p.i)
        cmd  == SubSeq(av, p.i + 1, Len(av))
        pid  == Len(S.procs) + 1
        clean == SrvUnlink(srv, name)
        made  == SrvMkfifo(clean, name)
    IN  IF p.err THEN Fail(S, "unknown flag", <<>>)
        ELSE IF name = NULL /\ p.remove = 0
             THEN [S1 EXCEPT !.status = TRUE,
                             !.out = IF list = <<>>
                                     THEN <<Msg(1, "# no services", SRV_DIR)>>
                                     ELSE list]
        ELSE IF name = NULL THEN Fail(S1, "usage", <<>>)
        ELSE IF p.remove # 0
             THEN IF ~SrvStat(srv, name) THEN Fail(S1, "not found", name)
                  ELSE [S1 EXCEPT !.status = TRUE]
        ELSE IF cmd = <<>>
             THEN IF SrvStat(srv, name)
                  THEN [S1 EXCEPT !.shv = varassign(S.shv, SrvVar(name),
                                                    <<SrvPath(name)>>),
                                  !.out = <<Msg(1, "path", SrvPath(name))>>,
                                  !.status = TRUE]
                  ELSE Fail(S1, "not found", name)
        ELSE IF HasChar(name, "/")
             THEN Fail([S1 EXCEPT !.srv = clean], "cannot create", SrvPath(name))
        ELSE IF ~fork_ok
             THEN Fail([S1 EXCEPT !.srv = clean], "fork", <<>>)
        ELSE [S1 EXCEPT !.srv = made,
                        !.procs = Append(S.procs, Worker(name, cmd)),
                        !.shv = varassign(S.shv, VarApid, <<Decimal(pid)>>),
                        !.status = TRUE]

\* fork_ok: rc_fork returned a pid (the child is then the next entry of
\* procs)
b_srv(S, av, fork_ok) ==
    LET p    == SrvFlags(av, 2, 0)
        srv  == ensure_srvdir(S.srv)
        S1   == [Enter(S) EXCEPT !.srv = srv]
        list == SrvListing(srv.ents)
        name == Arg(av, p.i)
        cmd  == SubSeq(av, p.i + 1, Len(av))
        pid  == Len(S.procs) + 1
        clean == SrvUnlink(srv, name)
        made  == SrvMkfifo(clean, name)
    IN  IF p.err THEN Fail(S, "unknown flag", <<>>)
        ELSE IF name = NULL /\ p.remove = 0
             THEN [S1 EXCEPT !.status = TRUE,
                             !.out = IF list = <<>>
                                     THEN <<Msg(1, "# no services", SRV_DIR)>>
                                     ELSE list]
        ELSE IF name = NULL THEN Fail(S1, "usage", <<>>)
        ELSE IF p.remove # 0
             THEN IF ~SrvStat(srv, name) THEN Fail(S1, "not found", name)
                  ELSE [S1 EXCEPT !.srv = SrvUnlink(srv, name), !.status = TRUE]
        ELSE IF cmd = <<>>
             THEN IF SrvStat(srv, name)
                  THEN [S1 EXCEPT !.shv = varassign(S.shv, SrvVar(name),
                                                    <<SrvPath(name)>>),
                                  !.out = <<Msg(1, "path", SrvPath(name))>>,
                                  !.status = TRUE]
                  ELSE Fail(S1, "not found", name)
        ELSE IF HasChar(name, "/")
             THEN Fail([S1 EXCEPT !.srv = clean], "cannot create", SrvPath(name))
        ELSE IF ~fork_ok
             THEN Fail([S1 EXCEPT !.srv = clean], "fork", <<>>)
        ELSE [S1 EXCEPT !.srv = made,
                        !.procs = Append(S.procs, Worker(name, cmd)),
                        !.shv = varassign(S.shv, VarApid, <<Decimal(pid)>>),
                        !.status = TRUE]

(***************************************************************************)
(* The process launcher, step by step.  A builtin that runs tools is a     *)
(* sequential function of the wait statuses run_cmd hands it: the shell    *)
(* enters it (Invoke), run_cmd forks the next tool it asks for             *)
(* (RunCmdFork), the child exits (ChildExit), rc_wait4 returns its status  *)
(* (RunCmdWait), and when the builtin asks for no further tool it returns  *)
(* (Return), which is where its effects on the shell state show.           *)
(***************************************************************************)
MaxProcs == 2   \* children are forked while fewer than this many have been

(***************************************************************************)
(* ns [-r]: the bind table printed bucket by bucket, each chain from its   *)
(* head.                                                                   *)
(***************************************************************************)
\* 0 without -r, 1 with it, -1 for an unknown flag
RECURSIVE NsFlagChars(_, _)
NsFlagChars(f, recreate) ==
    IF f = <<>> THEN recreate
    ELSE IF Head(f) = "r" THEN NsFlagChars(Tail(f), 1) ELSE -1

RECURSIVE NsFlags(_, _, _)
NsFlags(av, i, recreate) ==
    IF Arg(av, i) # NULL /\ Arg(av, i) # <<>> /\ Head(av[i]) = "-"
    THEN LET r == NsFlagChars(Tail(av[i]), recreate) IN
         IF r < 0 THEN [err |-> TRUE, i |-> i, recreate |-> recreate]
         ELSE NsFlags(av, i + 1, r)
    ELSE [err |-> FALSE, i |-> i, recreate |-> recreate]

\* "bind %s%S %S\n": the flag is chosen by the mode the entry carries; a
\* path of plain characters is printed as it is by %S
NsLine(b) ==
    <<"b","i","n","d"," ">>
      \o (IF HasBit(b.mode, BIND_BEFORE) THEN <<"-","b"," ">>
          ELSE IF HasBit(b.mode, BIND_AFTER) THEN <<"-","a"," ">> ELSE <<>>)
      \o b.from \o <<" ">> \o b.to

\* "%S\t%S\t(%s)\n"
NsEntry(b) ==
    b.from \o <<"\t">> \o b.to \o <<"\t">>
      \o (IF HasBit(b.mode, BIND_BEFORE) THEN <<"(","b","e","f","o","r","e",")">>
          ELSE IF HasBit(b.mode, BIND_AFTER) THEN <<"(","a","f","t","e","r",")">>
          ELSE <<"(","r","e","p","l","a","c","e",")">>)

ProcMounts == <<"/","p","r","o","c","/","m","o","u","n","t","s">>

\* outs[1] is the wait status of mount(8), run when the table is empty and
\* /proc/mounts cannot be opened
b_ns(S, av, outs) ==
    LET p     == NsFlags(av, 2, 0)
        es    == Flat(S.tab)
        lines == [i \in 1..Len(es) |->
                    IF p.recreate = 1 THEN Msg(1, "bind", NsLine(es[i]))
                    ELSE Msg(1, "entry", NsEntry(es[i]))]
    IN  IF p.err THEN Fail(S, "unknown flag", <<>>)
        ELSE IF Arg(av, p.i) # NULL THEN Fail(S, "usage", <<>>)
        ELSE IF Len(es) = 0 /\ p.recreate = 0
             THEN IF Exists(S.fs, ProcMounts)
                  THEN [Enter(S) EXCEPT !.out = <<Msg(1, "system mounts", <<>>)>>,
                                        !.status = TRUE]
                  ELSE [Enter(S) EXCEPT
                           !.launched = <<Ran(<< <<"m","o","u","n","t">> >>, outs[1])>>,
                           !.status = TRUE]
        ELSE [Enter(S) EXCEPT !.out = lines, !.status = TRUE]

\* the builtin `op` run from shell state S on the statuses outs
Builtin(op, S, av, outs, junk) ==
    CASE op = "bind"    -> b_bind(S, av) @@ [S EXCEPT !.out = <<>>]
      [] op = "ns"      -> b_ns(S, av, outs)
      [] op = "mount"   -> b_mount(S, av, outs) @@ [S EXCEPT !.out = <<>>]
      [] op = "unmount" -> b_unmount(S, av, outs)
      [] op = "import"  -> b_import(S, av, outs)
      [] op = "cpu"     -> b_cpu(S, av, outs, junk)

\* the statuses known so far, followed by failures
Pad(outs) == outs \o <<-1, -1>>

\* the tools the builtin in progress has asked for so far and the next one,
\* if it asks for one
Planned(j) == Builtin(j.op, ShellX, j.av, Pad(j.outs), j.junk).launched

Tool(argv) ==
    [argv |-> argv, kind |-> "tool", state |-> "running", stat |-> 0,
     name |-> <<>>]

\* what is left of a child that was waited for
Reaped == [argv |-> <<>>, kind |-> "tool", state |-> "reaped", stat |-> 0,
           name |-> <<>>]

\* rc_wait4(pid, &stat, TRUE) returns once the child has exited
rc_wait4(ps, pid) == ps[pid].state = "exited"

ApplyX(Result) ==
    LET R == Result IN
    /\ bindtab' = R.tab
    /\ nbinds' = R.n
    /\ dirs' = R.fs
    /\ status' = R.status
    /\ ns_bind_last' = R.nsl
    /\ launched' = R.launched
    /\ srvdir' = R.srv
    /\ shvars' = R.shv
    /\ out' = R.out
    /\ procs' = R.procs

\* the shell enters the builtin: nothing launched or printed by it yet
Invoke(op, av, junk) ==
    /\ job = NoCmd
    /\ job' = [op |-> op, av |-> av, outs |-> <<>>, pid |-> 0, junk |-> junk]
    /\ last' = [op |-> op, av |-> av]
    /\ launched' = <<>>
    /\ out' = <<>>
    /\ UNCHANGED <<bindtab, nbinds, dirs, status, ns_bind_last,
                   adds, procs, srvdir, shvars, attrs>>

\* run_cmd returning at once, with no child to wait for
RunCmdFork_no_wait(fork_ok) ==
    /\ job.op # "none" /\ job.pid = 0
    /\ \E plan \in {Planned(job)} :
          /\ Len(plan) > Len(job.outs)
          /\ IF fork_ok
             THEN /\ Len(procs) < MaxProcs
                  /\ procs' = Append(procs, Tool(plan[Len(job.outs) + 1].argv))
                  /\ job' = [job EXCEPT !.outs = Append(@, 0)]
             ELSE /\ procs' = procs
                  /\ job' = [job EXCEPT !.outs = Append(@, -1)]
    /\ UNCHANGED <<bindtab, nbinds, dirs, status, ns_bind_last, launched, last,
                   adds, srvdir, shvars, out, attrs>>

\* run_cmd up to rc_wait4: the child execs the tool, or fork fails and
\* run_cmd returns -1
RunCmdFork(fork_ok) ==
    /\ job.op # "none" /\ job.pid = 0
    /\ \E plan \in {Planned(job)} :
          /\ Len(plan) > Len(job.outs)
          /\ IF fork_ok
             THEN /\ Len(procs) < MaxProcs
                  /\ procs' = Append(procs, Tool(plan[Len(job.outs) + 1].argv))
                  /\ job' = [job EXCEPT !.pid = Len(procs) + 1]
             ELSE /\ procs' = procs
                  /\ job' = [job EXCEPT !.outs = Append(@, -1)]
    /\ UNCHANGED <<bindtab, nbinds, dirs, status, ns_bind_last, launched, last,
                   adds, srvdir, shvars, out, attrs>>

\* a child that runs its program terminates with wait status stat
ChildExit(pid, stat) ==
    /\ pid \in DOMAIN procs
    /\ procs[pid].state = "running"
    /\ procs' = [procs EXCEPT ![pid].state = "exited", ![pid].stat = stat]
    /\ UNCHANGED <<bindtab, nbinds, dirs, status, ns_bind_last, launched, last,
                   adds, job, srvdir, shvars, out, attrs>>

\* the child of srv: open(srvpath, O_RDWR), _exit(1) when that fails, else
\* dup2 onto 0 and 1 and execvp
WorkerOpen(pid) ==
    /\ pid \in DOMAIN procs
    /\ procs[pid].state = "forked"
    /\ procs' = IF SrvStat(srvdir, procs[pid].name)
                THEN [procs EXCEPT ![pid].state = "running",
                                   ![pid].fifo = FifoAt(procs, procs[pid].name)]
                ELSE [procs EXCEPT ![pid].state = "exited", ![pid].stat = 256]
    /\ UNCHANGED <<bindtab, nbinds, dirs, status, ns_bind_last, launched, last,
                   adds, job, srvdir, shvars, out, attrs>>

\* run_cmd from rc_wait4 on: return stat
RunCmdWait ==
    /\ job.pid # 0
    /\ rc_wait4(procs, job.pid)
    /\ job' = [job EXCEPT !.outs = Append(@, procs[job.pid].stat), !.pid = 0]
    /\ procs' = [procs EXCEPT ![job.pid] = Reaped]
    /\ UNCHANGED <<bindtab, nbinds, dirs, status, ns_bind_last, launched, last,
                   adds, srvdir, shvars, out, attrs>>

Return ==
    /\ job.op # "none" /\ job.pid = 0
    /\ \E R \in {Builtin(job.op, ShellX, job.av, Pad(job.outs), job.junk)} :
          /\ Len(R.launched) = Len(job.outs)
          /\ ApplyX(R)
    /\ job' = NoCmd
    /\ UNCHANGED <<last, adds, attrs>>

\* srv never waits: the whole builtin is one step of the shell
BSrv(av, fork_ok) ==
    /\ job = NoCmd
    /\ fork_ok => Len(procs) < MaxProcs
    /\ ApplyX(b_srv(ShellX, av, fork_ok))
    /\ last' = [op |-> "srv", av |-> av]
    /\ UNCHANGED <<job, adds, attrs>>

(***************************************************************************)
(* Specification SpecTool: the shell running the builtins that launch      *)
(* tools (mount, import, unmount, cpu) and posting one service.            *)
(***************************************************************************)
\* h:/x has the host:/path shape and /a has not; /m and /et exist, /x/y has
\* no parent
ToolMountArgvs ==
    { << <<"m","o","u","n","t">>, <<"h",":","/","x">>, <<"/","m">> >>,
      << <<"m","o","u","n","t">>, <<"-","a">>, <<"/","a">>, <<"/","m">> >>,
      << <<"m","o","u","n","t">>, <<"/","a">> >> }

ToolImportArgvs ==
    { << <<"i","m","p","o","r","t">>, <<"h">>, <<"/","x">>, <<"/","m">> >>,
      << <<"i","m","p","o","r","t">>, <<"-","b">>, <<"h">>, <<"/","m">> >>,
      << <<"i","m","p","o","r","t">>, <<"h">>, <<"/","x","/">>, <<"/","e","t">> >>,
      << <<"i","m","p","o","r","t">>, <<"h">> >>,
      << <<"i","m","p","o","r","t">>, <<"h">>, <<"/","x">>, <<"/","x","/","y">> >> }

ToolUnmountArgvs ==
    { << <<"u","n","m","o","u","n","t">>, <<"/","m">> >>,
      << <<"u","n","m","o","u","n","t">>, <<"h",":","/","x">>, <<"/","m">> >>,
      << <<"u","n","m","o","u","n","t">> >>,
      << <<"u","n","m","o","u","n","t">>, <<"/","m","/">> >> }

ToolCpuArgvs ==
    { << <<"c","p","u">>, <<"-","h">>, <<"h">>, <<"l","s">> >> }

ToolSrvArgvs ==
    { << <<"s","r","v">>, <<"f","o","o">>, <<"c","a","t">> >> }

\* the wait status of a child that ran: exit 0, exit 1, killed by signal 9
ExitStatuses == {0, 256, 9}

NextTool ==
    \/ \E av \in ToolMountArgvs : Invoke("mount", av, <<>>)
    \/ \E av \in ToolImportArgvs : Invoke("import", av, <<>>)
    \/ \E av \in ToolUnmountArgvs : Invoke("unmount", av, <<>>)
    \/ \E av \in ToolCpuArgvs : Invoke("cpu", av, <<>>)
    \/ \E av \in ToolSrvArgvs, fork_ok \in BOOLEAN : BSrv(av, fork_ok)
    \/ \E fork_ok \in BOOLEAN : RunCmdFork(fork_ok)
    \/ \E pid \in 1..MaxProcs, stat \in ExitStatuses : ChildExit(pid, stat)
    \/ \E pid \in 1..MaxProcs : WorkerOpen(pid)
    \/ RunCmdWait
    \/ Return

SpecTool == Init /\ [][NextTool]_vars

(***************************************************************************)
(* Properties of the tool-launching builtins, checked under SpecTool.      *)
(***************************************************************************)
\* the shell is back at the prompt from the builtin `op`
Returned(op) == job = NoCmd /\ last.op = op

IsTool(run, name) == run.argv[1] = name

\* the children run_cmd forked that have not been waited for
LiveTools == {pid \in DOMAIN procs : procs[pid].kind = "tool"
                                     /\ procs[pid].state # "reaped"}

\* C11: Mount strategy ordering.  A mount that reaches its transport phase
\* hands sshfs to the launcher iff the address holds both ':' and '/', and
\* then first; mount(8) comes last and only after every earlier strategy has
\* failed; nothing is launched after a strategy that exited 0; and at no
\* time are two launched tools alive together.
MountStrategyOrder ==
    /\ Cardinality(LiveTools) <= 1
    /\ Returned("mount") =>
         LET m      == MountOperands(last.av)
             remote == HasChar(m.addr, ":") /\ HasChar(m.addr, "/")
             n      == Len(launched)
             sshfs  == {i \in 1..n : IsTool(launched[i], <<"s","s","h","f","s">>)}
             mount  == {i \in 1..n : IsTool(launched[i], <<"m","o","u","n","t">>)}
         IN  IF m.given /\ isdir(dirs, m.mountpoint)
             THEN /\ sshfs = (IF remote THEN {1} ELSE {})
                  /\ sshfs \cup mount = 1..n
                  /\ mount \subseteq {n}
                  /\ \A i \in 1..(n - 1) : ~ExitedZero(launched[i].stat)
                  /\ mount = {} => (n = 1 /\ ExitedZero(launched[1].stat))
             ELSE n = 0

\* sshfs failed, then mount(8) attached h:/x at /m, and both children have
\* been waited for
MountStrategyWitness ==
    /\ Returned("mount")
    /\ Len(launched) = 2
    /\ IsTool(launched[1], <<"s","s","h","f","s">>) /\ launched[1].stat = 256
    /\ IsTool(launched[2], <<"m","o","u","n","t">>) /\ launched[2].stat = 0
    /\ status = TRUE
    /\ Len(procs) = 2 /\ LiveTools = {}

\* the operands and the mode of an import command line
ImportOperands(av) ==
    LET p == BindFlags(av, 2, BIND_REPLACE)
    IN  [given |-> ~p.err /\ Arg(av, p.i) # NULL /\ Arg(av, p.i + 1) # NULL,
         host |-> Arg(av, p.i), path |-> Arg(av, p.i + 1),
         mp |-> IF Arg(av, p.i + 2) # NULL THEN Arg(av, p.i + 2)
                ELSE Arg(av, p.i + 1),
         mode |-> p.mode]

\* C12: Import tries sshfs first and 9pfuse only if sshfs failed; on the
\* first success it reports success and has recorded exactly one
\* Add(host:remotePath, mountpoint, mode), the mountpoint being remotePath
\* when none is given; if both fail it reports failure with the bind table
\* and the entry count as before.
ImportFallback ==
    [][ (job.op = "import" /\ job' = NoCmd /\ launched' # <<>>)
          => \A m \in {ImportOperands(job.av)} :
             \A addr \in {m.host \o <<":">> \o m.path} :
             \A cfrom \in {IF addr[Len(addr)] = "/" THEN cleanpath(dirs', addr)
                           ELSE addr} :
             \A cto \in {cleanpath(dirs', m.mp)} :
             \A added \in {add_bind(bindtab, nbinds, cfrom, cto, m.mode)} :
                /\ launched'[1].argv = ImportSshfsCmd(addr, m.mp)
                /\ Len(launched') <= 2
                /\ Len(launched') = 2
                      => /\ ~ExitedZero(launched'[1].stat)
                         /\ launched'[2].argv = NinePfuseCmd(addr, m.mp)
                /\ IF AnyExitedZero(launched')
                   THEN /\ status' = TRUE
                        /\ bindtab' = added.tab /\ nbinds' = added.n
                        /\ \E i \in 1..Len(EntriesFor(bindtab', cto)) :
                              EntriesFor(bindtab', cto)[i].from = cfrom
                        /\ TotalEntries(bindtab') <= TotalEntries(bindtab) + 1
                   ELSE /\ Len(launched') = 2
                        /\ status' = FALSE
                        /\ bindtab' = bindtab /\ nbinds' = nbinds ]_vars

\* import -b h /m: sshfs failed, 9pfuse succeeded, and h:/m is now the first
\* source of /m ahead of an entry /m had
ImportFallbackWitness ==
    /\ Returned("import")
    /\ last.av = << <<"i","m","p","o","r","t">>, <<"-","b">>, <<"h">>, <<"/","m">> >>
    /\ Len(launched) = 2 /\ launched[2].stat = 0
    /\ status = TRUE
    /\ Len(ChainOf(MntM)) = 2
    /\ ChainOf(MntM)[1].from = <<"h",":","/","m">>

\* C13: Unmount's result is the OR of its parts.  unmount [from] mp reports
\* success iff a bind-table entry was removed or umount mp exited 0 or
\* fusermount -u mp exited 0, and else fails with "not mounted".
UnmountIsOr ==
    [][ ( /\ job.op = "unmount" /\ job' = NoCmd
          /\ Len(job.av) \in {2, 3} )
          => /\ status' = ( \/ TotalEntries(bindtab') < TotalEntries(bindtab)
                            \/ AnyExitedZero(launched') )
             /\ \A i \in 1..Len(launched') :
                   \/ launched'[i].argv = UmountCmd(job.av[Len(job.av)])
                   \/ launched'[i].argv = FusermountCmd(job.av[Len(job.av)])
             /\ status' = FALSE
                   <=> out' = <<Msg(2, "not mounted", job.av[Len(job.av)])>> ]_vars

\* unmount /m succeeded on the strength of the table alone: it removed the
\* entries of /m while umount failed
UnmountIsOrWitness ==
    /\ Returned("unmount")
    /\ last.av = << <<"u","n","m","o","u","n","t">>, <<"/","m">> >>
    /\ launched = <<Ran(UmountCmd(MntM), 256)>>
    /\ status = TRUE
    /\ TotalEntries(bindtab) = 0
    /\ Len(procs) = 2

\* C16: Blocking versus detached children.  Whenever a builtin has returned
\* to the prompt, every child the launcher forked for a tool has exited and
\* been waited for; srv name cmd returns in the step that forks its worker,
\* which has then not exited.
BlockingVersusDetached ==
    [][ /\ job' = NoCmd
           => \A pid \in DOMAIN procs' :
                 procs'[pid].kind = "tool" => procs'[pid].state = "reaped"
        /\ (last'.op = "srv" /\ Len(procs') > Len(procs))
           => /\ job' = NoCmd
              /\ procs'[Len(procs')].kind = "worker"
              /\ procs'[Len(procs')].state = "forked" ]_vars

\* cpu ran ssh to its end and returned while the worker srv had forked
\* before it was still running
BlockingVersusDetachedWitness ==
    /\ Returned("cpu")
    /\ Len(launched) = 1
    /\ Len(procs) = 2
    /\ procs[1].kind = "worker" /\ procs[1].state = "running"
    /\ procs[2] = Reaped

(***************************************************************************)
(* Specification SpecSrv: the shell posting, listing, connecting to and    *)
(* removing services while their workers open the FIFO, run and exit.      *)
(***************************************************************************)
Foo == <<"f","o","o">>
DotBar == <<".","b","a","r">>

SrvArgvs ==
    { << <<"s","r","v">> >>,
      << <<"s","r","v">>, <<"-","r">> >>,
      << <<"s","r","v">>, <<"-","x">>, Foo >>,
      << <<"s","r","v">>, Foo, <<"c","a","t">> >>,
      << <<"s","r","v">>, Foo >>,
      << <<"s","r","v">>, <<"-","r">>, Foo >>,
      << <<"s","r","v">>, DotBar, <<"c","a","t">> >>,
      << <<"s","r","v">>, <<"a","/","b">>, <<"c","a","t">> >> }

NextSrv ==
    \/ \E av \in SrvArgvs, fork_ok \in BOOLEAN : BSrv(av, fork_ok)
    \/ \E pid \in 1..MaxProcs, stat \in ExitStatuses : ChildExit(pid, stat)
    \/ \E pid \in 1..MaxProcs : WorkerOpen(pid)

SpecSrv == Init /\ [][NextSrv]_vars

(***************************************************************************)
(* Specification SpecCpu: the shell running cpu, whose variables cpu and   *)
(* path may or may not be set.                                             *)
(***************************************************************************)
HostC == <<"c">>

\* path set and cpu unset; both set; cpu set and path unset
CpuInitVars ==
    { InitVars,
      (VarPath :> InitPath) @@ (VarCpu :> <<HostC>>),
      (VarCpu :> <<HostC>>) }

InitCpu ==
    /\ bindtab = EmptyTab
    /\ nbinds = 0
    /\ dirs = InitDirs
    /\ status = TRUE
    /\ ns_bind_last = NULL
    /\ launched = <<>>
    /\ last = Idle
    /\ adds = [t \in Mountpoints |-> <<>>]
    /\ job = NoCmd
    /\ procs = <<>>
    /\ srvdir = NoSrvDir
    /\ shvars \in CpuInitVars
    /\ out = <<>>
    /\ attrs = InitAttrs

\* echo with an argument holding a space, a quote and a space, a tab, and a
\* newline; the host from $cpu; flags glued and spread; the usage errors
CpuArgvs ==
    { << <<"c","p","u">>, <<"-","h">>, <<"h">>, <<"e","c","h","o">>, <<"a"," ","b">> >>,
      << <<"c","p","u">>, <<"-","h">>, <<"h">>, <<"e","c","h","o">>, <<"a","'","b"," ","c">> >>,
      << <<"c","p","u">>, <<"-","h">>, <<"h">>, <<"e","c","h","o">>, <<"a","\t","b">> >>,
      << <<"c","p","u">>, <<"-","h">>, <<"h">>, <<"e","c","h","o">>, <<"a","\n","b">> >>,
      << <<"c","p","u">>, <<"l","s">> >>,
      << <<"c","p","u">>, <<"-","A">>, <<"-","u">>, <<"u">>, <<"-","h","h">>, <<"l","s">> >>,
      << <<"c","p","u">>, <<"-","h">> >>,
      << <<"c","p","u">>, <<"-","x">>, <<"l","s">> >>,
      << <<"c","p","u">> >> }

\* what the stack can hold where envbuf lies
Junk == { <<>>, <<"x">> }

\* envbuf is read uninitialized only when path is unset
JunkRead(junk) == IF varlookup(shvars, VarPath) = <<>> THEN junk ELSE <<>>

NextCpu ==
    \/ \E av \in CpuArgvs, junk \in Junk : Invoke("cpu", av, JunkRead(junk))
    \/ \E fork_ok \in BOOLEAN : RunCmdFork(fork_ok)
    \/ \E pid \in 1..MaxProcs, stat \in ExitStatuses : ChildExit(pid, stat)
    \/ RunCmdWait
    \/ Return

SpecCpu == InitCpu /\ [][NextCpu]_vars

(***************************************************************************)
(* Properties of the service registry, checked under SpecSrv.              *)
(***************************************************************************)
\* the operands of an srv command line
SrvOperands(av) ==
    LET p == SrvFlags(av, 2, 0)
    IN  [err |-> p.err, remove |-> p.remove # 0, name |-> Arg(av, p.i),
         cmd |-> SubSeq(av, p.i + 1, Len(av))]

\* this step is the shell running srv: the children it had are as they were
SrvStep ==
    /\ job = NoCmd /\ job' = NoCmd
    /\ last'.op = "srv"
    /\ \A pid \in DOMAIN procs : procs'[pid] = procs[pid]

Listed(lines, name) ==
    \E i \in 1..Len(lines) : lines[i].what = "entry" /\ lines[i].arg = name

\* the round trip for the service names that satisfy Covered, whatever the
\* workers have done so far
RoundTrip(Covered(_)) ==
    SrvStep =>
        \A o \in {SrvOperands(last'.av)} :
          ~o.err =>
            /\ (o.name # NULL /\ ~o.remove /\ o.cmd # <<>> /\ status')
                  => [name |-> o.name, kind |-> "fifo"] \in srvdir'.ents
            /\ (o.name = NULL /\ ~o.remove)
                  => \A e \in srvdir.ents : Covered(e.name) => Listed(out', e.name)
            /\ (o.name # NULL /\ o.remove /\ SrvStat(srvdir, o.name))
                  => (status' /\ ~SrvStat(srvdir', o.name))
            /\ (o.name # NULL /\ ~o.remove /\ o.cmd = <<>> /\ ~SrvStat(srvdir, o.name))
                  => /\ ~status'
                     /\ out' = <<Msg(2, "not found", o.name)>>
                     /\ shvars' = shvars

AnyName(name) == TRUE
NoDot(name) == name # <<>> /\ Head(name) # "."

ServiceGoneWithWorker ==
    \A pid \in DOMAIN procs :
       ( /\ procs[pid].kind = "worker"
         /\ procs[pid].state = "exited"
         /\ \A later \in DOMAIN procs :
               later > pid => procs[later].name # procs[pid].name )
       => ~SrvStat(srvdir, procs[pid].name)

(***************************************************************************)
(* Properties of cpu, checked under SpecCpu.                               *)
(***************************************************************************)
\* the flags and the command of a cpu command line
CpuOperands(av) ==
    LET p == CpuFlags(av, 2, NULL, NULL, FALSE)
    IN  [err |-> p.err, host |-> p.host, args |-> SubSeq(av, p.i, Len(av))]

\* C17: cpu host resolution.  The host given with -h is the one ssh is run
\* on even when the variable cpu is set; without -h it is the value of cpu;
\* with neither, cpu fails with "no host specified", sets failure status and
\* launches nothing.
CpuHostResolution ==
    [][ (job.op = "cpu" /\ job' = NoCmd)
          => \A o \in {CpuOperands(job.av)} :
             \A var \in {varlookup(shvars, VarCpu)} :
             o.err = "" =>
               IF o.host = NULL /\ var = <<>>
               THEN /\ status' = FALSE
                    /\ out' = <<Msg(2, "no host specified", <<>>)>>
                    /\ launched' = <<>> /\ job.outs = <<>>
               ELSE o.args # <<>>
                      => /\ Len(launched') = 1
                         /\ IsTool(launched'[1], <<"s","s","h">>)
                         /\ launched'[1].argv[Len(launched'[1].argv) - 1]
                               = (IF o.host # NULL THEN o.host ELSE Head(var)) ]_vars

\* cpu -h h echo "a b" ran ssh on h although the variable cpu names c
CpuHostWitness ==
    /\ Returned("cpu")
    /\ varlookup(shvars, VarCpu) = <<HostC>>
    /\ CpuOperands(last.av).host = <<"h">>
    /\ Len(launched) = 1
    /\ launched[1].argv[Len(launched[1].argv) - 1] = <<"h">>
    /\ status = TRUE

\* The words a POSIX shell splits a command line into: blanks and newlines
\* separate words, a single quote opens a literal stretch up to the next
\* single quote.  NULL when a quote is left open.
RECURSIVE Tokens(_, _, _, _, _)
Tokens(s, word, inword, quoted, acc) ==
    IF s = <<>>
    THEN IF quoted THEN NULL ELSE IF inword THEN Append(acc, word) ELSE acc
    ELSE LET c == Head(s) IN
         IF quoted
         THEN IF c = "'" THEN Tokens(Tail(s), word, TRUE, FALSE, acc)
              ELSE Tokens(Tail(s), Append(word, c), TRUE, TRUE, acc)
         ELSE IF c = "'" THEN Tokens(Tail(s), word, TRUE, TRUE, acc)
         ELSE IF c \in {" ", "\t", "\n"}
              THEN Tokens(Tail(s), <<>>, FALSE, FALSE,
                          IF inword THEN Append(acc, word) ELSE acc)
         ELSE Tokens(Tail(s), Append(word, c), TRUE, FALSE, acc)

ShellWords(s) == Tokens(s, <<>>, FALSE, FALSE, <<>>)

HasWhitespace(arg) == \E i \in 1..Len(arg) : arg[i] \in {" ", "\t", "\n"}

\* C18: cpu argument quoting.  In the command string handed to ssh, behind
\* the environment preamble, the remote shell reads one word per argument,
\* and for every argument that holds whitespace that word is the argument.
CpuQuoting ==
    [][ (job.op = "cpu" /\ job' = NoCmd /\ launched' # <<>>)
          => \A o \in {CpuOperands(job.av)} :
             \A pre \in {EnvPreamble(varlookup(shvars, VarPath), job.junk).buf} :
             \A remote_cmd \in {launched'[1].argv[Len(launched'[1].argv)]} :
             \A words \in {ShellWords(SubSeq(remote_cmd, Len(pre) + 1,
                                             Len(remote_cmd)))} :
                /\ words # NULL
                /\ Len(words) = Len(o.args)
                /\ \A i \in 1..Len(o.args) :
                      HasWhitespace(o.args[i]) => words[i] = o.args[i] ]_vars

(***************************************************************************)
(* rfork: the attributes of the shell process.  attrs holds its process    *)
(* group, its mount namespace (a counter: every unshare gives a new one),  *)
(* the names in environ, and its open descriptors.                         *)
(***************************************************************************)
RFNAMEG == 1
RFCNAMEG == 2
RFENVG == 4
RFCENVG == 8
RFNOTEG == 16
RFFDG == 32
RFCFDG == 64

\* flags & bit, flags |= bit, for a bit that is a power of two
HasFlag(flags, bit) == (flags \div bit) % 2 = 1
Or(flags, bit) == IF HasFlag(flags, bit) THEN flags ELSE flags + bit

\* the switch over one flag character; 0 is the default branch
RforkBit(c) ==
    CASE c \in {"c", "n"} -> RFNAMEG
      [] c \in {"C", "N"} -> RFCNAMEG
      [] c = "e" -> RFENVG
      [] c = "E" -> RFCENVG
      [] c = "s" -> RFNOTEG
      [] c = "f" -> RFFDG
      [] c = "F" -> RFCFDG
      [] OTHER -> 0

RECURSIVE RforkParse(_, _)
RforkParse(f, flags) ==
    IF f = <<>> THEN [err |-> FALSE, flags |-> flags, c |-> ""]
    ELSE IF RforkBit(Head(f)) = 0
         THEN [err |-> TRUE, flags |-> flags, c |-> Head(f)]
    ELSE RforkParse(Tail(f), Or(flags, RforkBit(Head(f))))

DefPath == << <<"/","u","s","r","/","l","o","c","a","l","/","b","i","n">>,
              <<"/","u","s","r","/","b","i","n">>,
              <<"/","b","i","n">> >>

\* the descriptors the closing loop stops before
CloseLimit == 256

\* ApplyFlags undoing the process group change when unshare fails
ApplyFlags_rollback(S, flags, setpgid_ok, unshare_ok) ==
    LET S1 == IF HasFlag(flags, RFNOTEG) /\ setpgid_ok
              THEN [S EXCEPT !.attrs.pgid = "self"] ELSE S
        S2 == IF HasFlag(flags, RFNAMEG)
              THEN [S1 EXCEPT !.attrs.ns = @ + 1] ELSE S1
        S3 == IF HasFlag(flags, RFENVG)
              THEN [S2 EXCEPT !.attrs.environ = {},
                              !.shv = varassign(S2.shv, VarPath, DefPath)]
              ELSE S2
        S4 == IF HasFlag(flags, RFFDG)
              THEN [S3 EXCEPT !.attrs.fds = @ \ (3..(CloseLimit - 1))]
              ELSE S3
    IN  IF HasFlag(flags, RFNAMEG) /\ ~unshare_ok
        THEN Fail(S, "unshare", <<>>)
        ELSE [S4 EXCEPT !.status = TRUE]

\* the flags applied to the current process, in the order of the code
ApplyFlags(S, flags, setpgid_ok, unshare_ok) ==
    LET S1 == IF HasFlag(flags, RFNOTEG) /\ setpgid_ok
              THEN [S EXCEPT !.attrs.pgid = "self"] ELSE S
        S2 == IF HasFlag(flags, RFNAMEG)
              THEN [S1 EXCEPT !.attrs.ns = @ + 1] ELSE S1
        S3 == IF HasFlag(flags, RFENVG)
              THEN [S2 EXCEPT !.attrs.environ = {},
                              !.shv = varassign(S2.shv, VarPath, DefPath)]
              ELSE S2
        S4 == IF HasFlag(flags, RFFDG)
              THEN [S3 EXCEPT !.attrs.fds = @ \ (3..(CloseLimit - 1))]
              ELSE S3
    IN  IF HasFlag(flags, RFNAMEG) /\ ~unshare_ok
        THEN Fail(S1, "unshare", <<>>)
        ELSE [S4 EXCEPT !.status = TRUE]

\* b_rfork applying the flags it has read when it meets an unknown one
b_rfork_applies_first(S, av, setpgid_ok, unshare_ok) ==
    LET p == IF Arg(av, 2) # NULL THEN RforkParse(av[2], 0)
             ELSE [err |-> FALSE, flags |-> 0, c |-> ""]
    IN  IF p.err
        THEN Fail(ApplyFlags(S, p.flags, setpgid_ok, unshare_ok),
                  "unknown flag", <<p.c>>)
        ELSE ApplyFlags(Enter(S), IF p.flags = 0 THEN RFNOTEG ELSE p.flags,
                        setpgid_ok, unshare_ok)

\* b_rfork making a new process group whatever the flags
b_rfork_always_pgrp(S, av, setpgid_ok, unshare_ok) ==
    LET p == IF Arg(av, 2) # NULL THEN RforkParse(av[2], 0)
             ELSE [err |-> FALSE, flags |-> 0, c |-> ""]
    IN  IF p.err THEN Fail(S, "unknown flag", <<p.c>>)
        ELSE ApplyFlags(Enter(S), Or(p.flags, RFNOTEG), setpgid_ok, unshare_ok)

\* setpgid_ok, unshare_ok: whether the system calls succeed
b_rfork(S, av, setpgid_ok, unshare_ok) ==
    LET p == IF Arg(av, 2) # NULL THEN RforkParse(av[2], 0)
             ELSE [err |-> FALSE, flags |-> 0, c |-> ""]
    IN  IF p.err THEN Fail(S, "unknown flag", <<p.c>>)
        ELSE ApplyFlags(Enter(S), IF p.flags = 0 THEN RFNOTEG ELSE p.flags,
                        setpgid_ok, unshare_ok)

MaxNs == 2

BRfork(av, setpgid_ok, unshare_ok) ==
    /\ job = NoCmd
    /\ attrs.ns < MaxNs
    /\ LET R == b_rfork(ShellX @@ [attrs |-> attrs], av, setpgid_ok, unshare_ok)
       IN  ApplyX(R) /\ attrs' = R.attrs
    /\ last' = [op |-> "rfork", av |-> av, setpgid_ok |-> setpgid_ok,
                unshare_ok |-> unshare_ok]
    /\ UNCHANGED <<job, adds>>

(***************************************************************************)
(* Specification SpecRfork: rfork run on a shell that starts with any of   *)
(* a few descriptors open besides 0, 1 and 2.                              *)
(***************************************************************************)
OpenFds == {3, 255, 256}

InitRfork ==
    /\ bindtab = EmptyTab
    /\ nbinds = 0
    /\ dirs = InitDirs
    /\ status = TRUE
    /\ ns_bind_last = NULL
    /\ launched = <<>>
    /\ last = Idle
    /\ adds = [t \in Mountpoints |-> <<>>]
    /\ job = NoCmd
    /\ procs = <<>>
    /\ srvdir = NoSrvDir
    /\ shvars = InitVars
    /\ out = <<>>
    /\ attrs \in { [InitAttrs EXCEPT !.fds = @ \cup more] : more \in SUBSET OpenFds }

Rfork == <<"r","f","o","r","k">>

\* no flags; each flag alone; several; the copy flags; an unknown character
\* first, last, between valid ones and alone; a second argument
RforkArgvs ==
    { <<Rfork>>,
      <<Rfork, <<"f">> >>, <<Rfork, <<"e">> >>, <<Rfork, <<"s">> >>,
      <<Rfork, <<"n">> >>, <<Rfork, <<"c","e","f">> >>,
      <<Rfork, <<"C","N","E","F">> >>,
      <<Rfork, <<"x">> >>, <<Rfork, <<"x","f">> >>, <<Rfork, <<"e","f","s","x">> >>,
      <<Rfork, <<"n","-","e">> >>, <<Rfork, <<"e","s","n">> >>,
      <<Rfork, <<"s">>, <<"f">> >> }

NextRfork ==
    \E av \in RforkArgvs, setpgid_ok \in BOOLEAN, unshare_ok \in BOOLEAN :
        BRfork(av, setpgid_ok, unshare_ok)

SpecRfork == InitRfork /\ [][NextRfork]_vars

\* C19: rfork fd isolation.  After rfork with the f flag returns, every
\* descriptor numbered 3 or higher that was open before the call is closed,
\* and descriptors 0, 1 and 2 are still open.
RforkFdIsolation ==
    [][ ( /\ last'.op = "rfork"
          /\ Arg(last'.av, 2) # NULL
          /\ \E i \in 1..Len(last'.av[2]) : last'.av[2][i] = "f"
          /\ status' )
        => /\ \A fd \in attrs.fds : fd >= 3 => fd \notin attrs'.fds
           /\ {0, 1, 2} \subseteq attrs'.fds ]_vars

KnownFlagChars == {"c", "n", "C", "N", "e", "E", "s", "f", "F"}

\* C20: rfork with a flag string holding an unknown character fails with
\* "unknown flag" and failure status, and process group, mount namespace,
\* environment, the path variable and the open descriptors are unchanged,
\* whatever valid flags stand before or after the unknown character.
RforkUnknownFlag ==
    [][ ( /\ last'.op = "rfork"
          /\ Arg(last'.av, 2) # NULL
          /\ \E i \in 1..Len(last'.av[2]) : last'.av[2][i] \notin KnownFlagChars )
        => /\ status' = FALSE
           /\ \E i \in 1..Len(last'.av[2]) :
                 /\ last'.av[2][i] \notin KnownFlagChars
                 /\ \A k \in 1..(i - 1) : last'.av[2][k] \in KnownFlagChars
                 /\ out' = <<Msg(2, "unknown flag", <<last'.av[2][i]>>)>>
           /\ attrs' = attrs
           /\ shvars' = shvars ]_vars

\* rfork efsx has just failed on x: the environment is still there, the
\* path is the one the shell started with, descriptor 3 is still open and
\* the shell is still in its parent's process group
RforkUnknownFlagWitness ==
    /\ last.op = "rfork" /\ last.av = <<Rfork, <<"e","f","s","x">> >>
    /\ status = FALSE
    /\ out = <<Msg(2, "unknown flag", <<"x">>)>>
    /\ attrs.environ # {}
    /\ 3 \in attrs.fds
    /\ attrs.pgid = "parent"
    /\ varlookup(shvars, VarPath) = InitPath

\* the flag string of an rfork command line (<<>> when there is none)
RforkString(av) == IF Arg(av, 2) # NULL THEN av[2] ELSE <<>>

HasFlagChar(f, cs) == \E i \in 1..Len(f) : f[i] \in cs

\* C21: rfork mutates only the attributes whose new-group flag was
\* requested.  Without a flag argument only the process group changes; with
\* only copy flags (C, E, N, F) nothing changes and rfork succeeds;
\* environment (and path), descriptors and mount namespace change only if
\* e, f, or c/n was given, and the process group only if s or no flag was.
RforkFrame ==
    [][ last'.op = "rfork"
        => \A f \in {RforkString(last'.av)} :
           /\ f = <<>>
                => /\ status'
                   /\ attrs' = [attrs EXCEPT !.pgid = attrs'.pgid]
                   /\ shvars' = shvars
           /\ (f # <<>> /\ \A i \in 1..Len(f) : f[i] \in {"C", "E", "N", "F"})
                => (status' /\ attrs' = attrs /\ shvars' = shvars)
           /\ ~HasFlagChar(f, {"e"})
                => (attrs'.environ = attrs.environ /\ shvars' = shvars)
           /\ ~HasFlagChar(f, {"f"}) => attrs'.fds = attrs.fds
           /\ ~HasFlagChar(f, {"c", "n"}) => attrs'.ns = attrs.ns
           /\ (f # <<>> /\ ~HasFlagChar(f, {"s"})) => attrs'.pgid = attrs.pgid ]_vars

\* rfork CNEF has succeeded on a shell that is still in its parent's group
\* and namespace, with its environment and with descriptor 3 open
RforkFrameWitness ==
    /\ last.op = "rfork" /\ last.av = <<Rfork, <<"C","N","E","F">> >>
    /\ status = TRUE
    /\ attrs.pgid = "parent" /\ attrs.ns = 0
    /\ attrs.environ # {} /\ 3 \in attrs.fds
    /\ varlookup(shvars, VarPath) = InitPath

\* rfork has just failed in unshare
UnshareFailed ==
    /\ last'.op = "rfork"
    /\ ~status'
    /\ out' = <<Msg(2, "unshare", <<>>)>>

\* C22 as stated: if applying one flag fails (the new-namespace flag when
\* unshare fails), rfork reports failure and the effects of the flags that
\* stand before it in the flag string remain applied.
RforkEarlierInString ==
    [][ UnshareFailed
        => \A f \in {RforkString(last'.av)} :
           \E n \in 1..Len(f) :
              /\ f[n] \in {"c", "n"}
              /\ \A k \in 1..(n - 1) : f[k] \notin {"c", "n"}
              /\ \A k \in 1..(n - 1) :
                    /\ (f[k] = "s" /\ last'.setpgid_ok) => attrs'.pgid = "self"
                    /\ f[k] = "e" => attrs'.environ = {}
                    /\ f[k] = "f" => attrs'.fds \cap (3..(CloseLimit - 1)) = {} ]_vars

\* C22 amended: when unshare fails rfork reports failure; the process group
\* change, which is applied before it, remains wherever s stands in the
\* flag string, and environment, path, descriptors and mount namespace are
\* as they were, wherever e and f stand.
RforkNoRollback ==
    [][ UnshareFailed
        => \A f \in {RforkString(last'.av)} :
           /\ HasFlagChar(f, {"c", "n"})
           /\ ~last'.unshare_ok
           /\ (HasFlagChar(f, {"s"}) /\ last'.setpgid_ok) => attrs'.pgid = "self"
           /\ ~(HasFlagChar(f, {"s"}) /\ last'.setpgid_ok) => attrs'.pgid = attrs.pgid
           /\ attrs'.environ = attrs.environ
           /\ attrs'.fds = attrs.fds
           /\ attrs'.ns = attrs.ns
           /\ shvars' = shvars ]_vars

\* rfork esn has failed in unshare: the shell leads its own process group,
\* and still has its environment
RforkNoRollbackWitness ==
    /\ last.op = "rfork" /\ last.av = <<Rfork, <<"e","s","n">> >>
    /\ last.setpgid_ok /\ ~last.unshare_ok
    /\ status = FALSE
    /\ out = <<Msg(2, "unshare", <<>>)>>
    /\ attrs.pgid = "self"
    /\ attrs.environ # {}

\* an srv command line that is rejected: an unknown flag, or -r without a
\* name
SrvRejected(av) ==
    \A o \in {SrvOperands(av)} : o.err \/ (o.remove /\ o.name = NULL)

\* C23: Usage errors have no side effects.  An invocation rejected for bad
\* or missing arguments or an unknown flag (here: of srv) sets failure
\* status and leaves the bind table, the shell variables, the file system
\* with the service directory and its entries, and the process attributes
\* unchanged, and launches no child process.
UsageErrorNoSideEffects ==
    [][ (SrvStep /\ SrvRejected(last'.av))
        => /\ ~status'
           /\ bindtab' = bindtab /\ nbinds' = nbinds
           /\ shvars' = shvars /\ ns_bind_last' = ns_bind_last
           /\ dirs' = dirs
           /\ srvdir' = srvdir
           /\ attrs' = attrs
           /\ procs' = procs /\ launched' = <<>> ]_vars

(***************************************************************************)
(* Specification SpecNs: binds, ns, the replay of what ns -r printed in a  *)
(* shell whose table is empty, and mounts and imports onto a mountpoint    *)
(* that cannot be made.                                                    *)
(***************************************************************************)
\* the words of one printed line
LineWords(line) == ShellWords(line)

\* the lines run in order as bind commands, from shell state S
RECURSIVE RunLines(_, _)
RunLines(S, lines) ==
    IF lines = <<>> THEN S
    ELSE RunLines(b_bind(S, LineWords(Head(lines).arg)) @@ S, Tail(lines))

\* the output of ns -r executed against an empty table
Replay ==
    /\ job = NoCmd
    /\ last.op = "ns" /\ status
    /\ \A i \in 1..Len(out) : out[i].what = "bind"
    /\ NsFlags(last.av, 2, 0).recreate = 1
    /\ \E R \in {RunLines([ShellX EXCEPT !.tab = EmptyTab, !.n = 0, !.out = <<>>], out)} :
          ApplyX(R)
    /\ last' = [op |-> "replay", av |-> <<>>]
    /\ UNCHANGED <<job, adds, attrs>>

NsBindArgvs ==
    { << <<"b","i","n","d">>, <<"-","b">>, <<"/","a">>, <<"/","m">> >>,
      << <<"b","i","n","d">>, <<"-","b">>, <<"/","b">>, <<"/","m">> >>,
      << <<"b","i","n","d">>, <<"-","a">>, <<"/","c">>, <<"/","m">> >>,
      << <<"b","i","n","d">>, <<"/","a">>, <<"/","m">> >>,
      << <<"b","i","n","d">>, <<"-","a">>, <<"/","a">>, <<"/","e","t">> >>,
      << <<"b","i","n","d">>, <<"/","z","z">>, <<"/","m">> >>,
      << <<"b","i","n","d">>, <<"/","a">>, <<"/","q">> >>,
      << <<"b","i","n","d">>, <<"-","c">>, <<"/","a">>, <<"/","x","/","y">> >> }

\* /x does not exist, so /x/y cannot be made
NsMountArgvs ==
    { << <<"m","o","u","n","t">>, <<"/","a">>, <<"/","x","/","y">> >>,
      << <<"m","o","u","n","t">>, <<"h",":","/","x">>, <<"/","x","/","y">> >> }

NsImportArgvs ==
    { << <<"i","m","p","o","r","t">>, <<"h">>, <<"/","x">>, <<"/","x","/","y">> >> }

NsArgvs ==
    { << <<"n","s">> >>, << <<"n","s">>, <<"-","r">> >>,
      << <<"n","s">>, <<"-","x">> >>, << <<"n","s">>, <<"-","r">>, <<"/","m">> >> }

NextNs ==
    \/ \E av \in NsBindArgvs : nbinds < MaxBinds /\ Invoke("bind", av, <<>>)
    \/ \E av \in NsArgvs : Invoke("ns", av, <<>>)
    \/ \E av \in NsMountArgvs : Invoke("mount", av, <<>>)
    \/ \E av \in NsImportArgvs : Invoke("import", av, <<>>)
    \/ \E fork_ok \in BOOLEAN : RunCmdFork(fork_ok)
    \/ \E pid \in 1..MaxProcs, stat \in ExitStatuses : ChildExit(pid, stat)
    \/ RunCmdWait
    \/ Return
    \/ Replay

SpecNs == Init /\ [][NextNs]_vars

\* C24: Replay round-trip of ns -r.  Executing the lines printed by ns -r in
\* order against an empty table yields for every mountpoint the same
\* sequence of sources in the same precedence order.
ReplayRecreates ==
    [][ (last.op = "ns" /\ last'.op = "replay")
        => \A mp \in Mountpoints :
              FromsOf(EntriesFor(bindtab', mp)) = FromsOf(EntriesFor(bindtab, mp)) ]_vars

(***************************************************************************)
(* More properties of bind, addns and mount, checked under SpecCmd.        *)
(***************************************************************************)
\* the bind command line a bind or addns command line amounts to (<<>> for
\* an addns that lacks an operand), and its operands
AsBind(op, av) ==
    IF op = "bind" THEN av
    ELSE IF Arg(av, 2) = NULL \/ Arg(av, 3) = NULL THEN <<>>
    ELSE << <<"b","i","n","d">>, <<"-","a">>, av[2], av[3] >>

BindOperands(av) ==
    LET p == BindFlags(av, 2, BIND_REPLACE)
    IN  [from |-> Arg(av, p.i), to |-> Arg(av, p.i + 1), mode |-> p.mode]

\* C25: ns_bind_last holds the canonical "from to" pair of the most recent
\* successful bind or addns: a successful one sets it to its own pair, a
\* failing one leaves it unchanged, and so does mount.
NsBindLastIsLastBind ==
    [][ /\ last'.op \in {"bind", "addns"}
          => \A o \in {BindOperands(AsBind(last'.op, last'.av))} :
                IF status'
                THEN ns_bind_last' = cleanpath(dirs', o.from) \o <<" ">>
                                        \o cleanpath(dirs', o.to)
                ELSE ns_bind_last' = ns_bind_last
        /\ last'.op = "mount" => ns_bind_last' = ns_bind_last ]_vars

\* bind /zz /m has failed after bind -a /b /m/ succeeded: the variable
\* still names /b and the canonical /m
NsBindLastWitness ==
    /\ last.op = "bind"
    /\ last.av = << <<"b","i","n","d">>, <<"/","z","z">>, <<"/","m">> >>
    /\ status = FALSE
    /\ ns_bind_last = SrcB \o <<" ">> \o MntM
    /\ \E i \in 1..Len(ChainOf(MntM)) : ChainOf(MntM)[i].from = SrcB

(***************************************************************************)
(* More properties of unmount, checked under SpecTool.                     *)
(***************************************************************************)
\* C26: In unmount the external attempt is independent of the table
\* removal: umount mp is always handed to the launcher, and whenever umount
\* did not exit 0, fusermount -u mp is handed to it next, whether or not a
\* bind-table entry was removed.
UnmountLaunchIndependent ==
    (Returned("unmount") /\ Len(last.av) \in {2, 3})
       => /\ launched # <<>>
          /\ launched[1].argv = UmountCmd(last.av[Len(last.av)])
          /\ ~ExitedZero(launched[1].stat)
                => /\ Len(launched) = 2
                   /\ launched[2].argv = FusermountCmd(last.av[Len(last.av)])

(***************************************************************************)
(* Validation errors, checked under SpecNs.                                *)
(***************************************************************************)
\* the mountpoint operand of a mount or import command line
MountpointOf(op, av) ==
    IF op = "mount" THEN MountOperands(av).mountpoint ELSE ImportOperands(av).mp

\* the command line has its operands, and its source does not exist, or its
\* mountpoint does not exist before the builtin nor after it
ValidationError(op, av, fs, fs2) ==
    IF op = "bind"
    THEN \A p \in {BindFlags(av, 2, BIND_REPLACE)} :
            /\ ~p.err
            /\ Arg(av, p.i) # NULL /\ Arg(av, p.i + 1) # NULL
            /\ Arg(av, p.i + 2) = NULL
            /\ \/ ~stat_ok(fs, av[p.i])
               \/ ~stat_ok(fs, av[p.i + 1]) /\ ~stat_ok(fs2, av[p.i + 1])
    ELSE /\ op \in {"mount", "import"}
         /\ IF op = "mount" THEN MountOperands(av).given ELSE ImportOperands(av).given
         /\ ~isdir(fs, MountpointOf(op, av)) /\ ~isdir(fs2, MountpointOf(op, av))

\* C27: Validation errors never mutate the bind table.  A bind whose source
\* does not exist, or whose mountpoint does not exist and is not created,
\* and a mount or import whose mountpoint cannot be created, report failure
\* with the table contents and the entry count unchanged.
ValidationKeepsTable ==
    [][ (job.op \in {"bind", "mount", "import"} /\ job' = NoCmd
           /\ ValidationError(job.op, job.av, dirs, dirs'))
        => /\ status' = FALSE
           /\ bindtab' = bindtab
           /\ nbinds' = nbinds
           /\ launched' = <<>> ]_vars

\* bind -c /a /x/y has failed on the mountpoint it could not make, with two
\* entries in the table
ValidationWitness ==
    /\ Returned("bind")
    /\ last.av = << <<"b","i","n","d">>, <<"-","c">>, <<"/","a">>, <<"/","x","/","y">> >>
    /\ status = FALSE
    /\ TotalEntries(bindtab) = 2
    /\ ~isdir(dirs, <<"/","x","/","y">>)

(***************************************************************************)
(* Specification SpecUnbind: binds onto a mountpoint typed with a trailing *)
(* slash or as it is stored, and unmounts typed the same way.              *)
(***************************************************************************)
MntMSlash == <<"/","m","/">>

UnbindBindArgvs ==
    { << <<"b","i","n","d">>, <<"/","a">>, MntMSlash >>,
      << <<"b","i","n","d">>, <<"-","a">>, <<"/","b">>, MntMSlash >>,
      << <<"b","i","n","d">>, <<"-","a">>, <<"/","a">>, MntET >>,
      << <<"b","i","n","d">>, <<"-","b">>, <<"/","b">>, MntET >> }

UnbindUnmountArgvs ==
    { << <<"u","n","m","o","u","n","t">>, MntMSlash >>,
      << <<"u","n","m","o","u","n","t">>, <<"/","b">>, MntMSlash >>,
      << <<"u","n","m","o","u","n","t">>, MntET >>,
      << <<"u","n","m","o","u","n","t">>, <<"/","a">>, MntET >> }

NextUnbind ==
    \/ \E av \in UnbindBindArgvs : nbinds < MaxBinds /\ Invoke("bind", av, <<>>)
    \/ \E av \in UnbindUnmountArgvs : Invoke("unmount", av, <<>>)
    \/ \E fork_ok \in BOOLEAN : RunCmdFork(fork_ok)
    \/ \E pid \in 1..MaxProcs, stat \in ExitStatuses : ChildExit(pid, stat)
    \/ RunCmdWait
    \/ Return

SpecUnbind == Init /\ [][NextUnbind]_vars

\* C28: Add and unmount agree on the table key.  For a mountpoint argument
\* p, canonical or not, unmount p removes the entries that bind f p made
\* (those stored under the canonical p), and unmount f p removes exactly the
\* first entry made from the same two arguments.
UnmountFindsBoundKey ==
    [][ (job.op = "unmount" /\ job' = NoCmd /\ Len(job.av) \in {2, 3})
        => \A cto \in {cleanpath(dirs, job.av[Len(job.av)])} :
              IF Len(job.av) = 2
              THEN Flat(bindtab') = OtherEntries(bindtab, cto)
              ELSE Flat(bindtab') =
                     DropFirst(Flat(bindtab), cleanpath(dirs, job.av[2]), cto) ]_vars

(***************************************************************************)
(* The worker and its FIFO, checked under SpecSrv.                         *)
(***************************************************************************)
\* C29: Worker attachment under interleaving.  Whatever srv commands the
\* shell runs before the worker gets to its open, the worker forked by a
\* successful srv name cmd runs cmd on the FIFO that the same invocation
\* made: it never exits before exec for want of the FIFO, and never has the
\* FIFO of a later invocation on its descriptors.
WorkerOnOwnFifo ==
    \A pid \in DOMAIN procs :
       (procs[pid].kind = "worker" /\ procs[pid].state # "forked")
          => procs[pid].fifo = pid

(***************************************************************************)
(* The buffers of cpu, checked under SpecCpu.                              *)
(***************************************************************************)
\* the command and its arguments, each quoted as cpu quotes it, with one
\* blank between
RECURSIVE QuotedCommand(_)
QuotedCommand(args) ==
    IF args = <<>> THEN <<>>
    ELSE IF Len(args) = 1 THEN QuoteArg(args[1])
    ELSE QuoteArg(args[1]) \o <<" ">> \o QuotedCommand(Tail(args))

\* C30: cpu buffer bounds.  The offsets at which cpu writes into the
\* preamble buffer and into the command buffer never pass the capacity of
\* the buffer, and with the variable path unset the command string handed to
\* ssh is the quoted command with nothing before it.
CpuBuffers ==
    [][ (job.op = "cpu" /\ job' = NoCmd /\ launched' # <<>>)
          => \A path \in {varlookup(shvars, VarPath)} :
             \A env \in {EnvPreamble(path, job.junk)} :
             \A cmd \in {CmdBuf(env, CpuOperands(job.av).args)} :
                /\ ~env.ovf /\ env.off <= ENVBUF_SIZE
                /\ ~cmd.ovf /\ cmd.off <= CMDBUF_SIZE
                /\ path = <<>>
                     => launched'[1].argv[Len(launched'[1].argv)]
                           = QuotedCommand(CpuOperands(job.av).args) ]_vars

====
